---- MODULE Spec2Model ----
(***************************************************************************)
(* Model of the LastAIStanding survival ledger                             *)
(* (contracts/src/LastAIStanding.sol): participant records, the age       *)
(* accumulator, the fee split and the register / heartbeat / kill / claim  *)
(* / claimTreasury / transferTreasury operations, together with the USDC   *)
(* balance the contract holds.                                             *)
(*                                                                         *)
(* Amounts are integers of minimal currency units.  COST_PER_EPOCH and     *)
(* EPOCH_DURATION are constructor parameters; PRECISION is scaled from     *)
(* 1e18 to 1e6 so that age * accRewardPerAge stays inside the integer      *)
(* range of the model checker (all divisors that occur are below 64, and   *)
(* 2^6 and 5^6 divide 1e6, so the truncation pattern is that of 1e18).     *)
(***************************************************************************)
EXTENDS Integers, Sequences, FiniteSets, TLC

\* ---- bounds of the model ------------------------------------------------
NumWallets == 3
MaxEpoch == 3

\* ---- constructor parameters and constants -------------------------------
EPOCH_DURATION == 1
COST_PER_EPOCH == 12
PRECISION == 1000000
TREASURY_BPS == 1000
BPS_DENOMINATOR == 10000

ZERO == 0
Wallets == 1 .. NumWallets
AgentIds == 0 .. (NumWallets - 1)
DEPLOYER == 1
\* addresses transferTreasury is called with
TreasuryCandidates == {ZERO, DEPLOYER, DEPLOYER + 1}
MaxTime == (MaxEpoch + 1) * EPOCH_DURATION - 1

VARIABLES
    agents,                 \* mapping(address => Agent)
    agentIdToAddr,          \* mapping(uint256 => address)
    registry,               \* address[]
    totalAlive, totalDead, totalEverRegistered,
    totalAge, accRewardPerAge,
    treasury, treasuryBalance,
    totalRewardsDistributed,
    now,                    \* block.timestamp
    usdcBalance,            \* usdc.balanceOf(address(this))
    totalIn, totalOut,      \* currency ever transferred in / out
    kills,                  \* number of successful kill calls
    dustBudget,             \* sum over kills of the survivors left by the kill
    payments,               \* number of accepted register/heartbeat payments
    inFlight,               \* the call whose currency transfer is being executed
    probe,                  \* (cost, totalPaid, ...) of the payment arithmetic under study
    auto                    \* the run of the client's "auto" command by one agent

vars == <<agents, agentIdToAddr, registry, totalAlive, totalDead,
          totalEverRegistered, totalAge, accRewardPerAge, treasury,
          treasuryBalance, totalRewardsDistributed, now, usdcBalance,
          totalIn, totalOut, kills, dustBudget, payments, inFlight, probe, auto>>

ledger == <<agents, agentIdToAddr, registry, totalAlive, totalDead,
            totalEverRegistered, totalAge, accRewardPerAge, treasury,
            treasuryBalance, totalRewardsDistributed>>

\* no call is inside a currency transfer / no payment arithmetic is under study /
\* no agent runs the auto command
NoCall == [op |-> "none"]
NoProbe == [cost |-> 0]
NoAuto == [pc |-> "off"]

\* ---- the Agent struct ---------------------------------------------------
EmptyAgent ==
    [birthEpoch |-> 0, lastHeartbeatEpoch |-> 0, alive |-> FALSE,
     totalPaid |-> 0, rewardDebt |-> 0, claimable |-> 0, agentId |-> 0]

\* ---- views --------------------------------------------------------------
currentEpoch == now \div EPOCH_DURATION

\* lastHeartbeatEpoch - birthEpoch + 1, as every operation computes it
AgeOf(a) == a.lastHeartbeatEpoch - a.birthEpoch + 1

getAge(addr) ==
    IF agents[addr].birthEpoch = 0 THEN 0 ELSE AgeOf(agents[addr])

\* isAlive with the grace epoch left out
isAlive_noGrace(addr) ==
    IF ~agents[addr].alive THEN FALSE
    ELSE currentEpoch <= agents[addr].lastHeartbeatEpoch

isAlive(addr) ==
    IF ~agents[addr].alive THEN FALSE
    ELSE currentEpoch <= agents[addr].lastHeartbeatEpoch + 1

isKillable(addr) ==
    IF ~agents[addr].alive THEN FALSE
    ELSE currentEpoch > agents[addr].lastHeartbeatEpoch + 1

\* (age * _acc / PRECISION) - a.rewardDebt ; negative stands for the
\* checked-subtraction panic
Accrued(a, acc) == (AgeOf(a) * acc) \div PRECISION - a.rewardDebt

pendingReward(addr) ==
    LET a == agents[addr] IN
    IF a.birthEpoch = 0 THEN 0
    ELSE IF ~a.alive THEN a.claimable
    ELSE Accrued(a, accRewardPerAge) + a.claimable

\* ---- fee split ----------------------------------------------------------
treasuryFee == (COST_PER_EPOCH * TREASURY_BPS) \div BPS_DENOMINATOR
poolAmount == COST_PER_EPOCH - treasuryFee

\* ---- bookkeeping shared by the operations -------------------------------
\* usdc.safeTransferFrom(msg.sender, address(this), amount)
TransferIn(amount) ==
    /\ usdcBalance' = usdcBalance + amount
    /\ totalIn' = totalIn + amount
    /\ totalOut' = totalOut

\* usdc.safeTransfer(to, amount)
TransferOut(amount) ==
    /\ usdcBalance' = usdcBalance - amount
    /\ totalOut' = totalOut + amount
    /\ totalIn' = totalIn

Init ==
    /\ agents = [w \in Wallets |-> EmptyAgent]
    /\ agentIdToAddr = [i \in AgentIds |-> ZERO]
    /\ registry = << >>
    /\ totalAlive = 0 /\ totalDead = 0 /\ totalEverRegistered = 0
    /\ totalAge = 0 /\ accRewardPerAge = 0
    /\ treasury = DEPLOYER /\ treasuryBalance = 0
    /\ totalRewardsDistributed = 0
    /\ now = 0
    /\ usdcBalance = 0 /\ totalIn = 0 /\ totalOut = 0
    /\ kills = 0 /\ dustBudget = 0 /\ payments = 0
    /\ inFlight = NoCall /\ probe = NoProbe /\ auto = NoAuto

\* ---- register -----------------------------------------------------------
\* registerError without the check that a returning caller uses its own id
registerError_noIdCheck(caller, agentId, wallet) ==
    LET a == agents[caller]
        existing == agentIdToAddr[agentId]
    IN  IF wallet # caller THEN "NotAgentWallet"
        ELSE IF existing # ZERO /\ existing # caller THEN "AgentIdTaken"
        ELSE IF a.alive THEN "AlreadyRegistered"
        ELSE "ok"

\* registerError without the check that the id is bound to another address
registerError_noTakenCheck(caller, agentId, wallet) ==
    LET a == agents[caller]
    IN  IF wallet # caller THEN "NotAgentWallet"
        ELSE IF a.alive THEN "AlreadyRegistered"
        ELSE IF a.birthEpoch # 0 /\ a.agentId # agentId THEN "AgentIdTaken"
        ELSE "ok"

\* wallet is what identityRegistry.getAgentWallet(agentId) answers
registerError(caller, agentId, wallet) ==
    LET a == agents[caller]
        existing == agentIdToAddr[agentId]
    IN  IF wallet # caller THEN "NotAgentWallet"
        ELSE IF existing # ZERO /\ existing # caller THEN "AgentIdTaken"
        ELSE IF a.alive THEN "AlreadyRegistered"
        ELSE IF a.birthEpoch # 0 /\ a.agentId # agentId THEN "AgentIdTaken"
        ELSE "ok"

\* registerEffects writing a fresh record: the unclaimed reward is dropped
registerEffects_freshRecord(caller, agentId) ==
    LET a == agents[caller]
        isNew == (a.birthEpoch = 0)
    IN  /\ treasuryBalance' = treasuryBalance + treasuryFee
        /\ agents' = [agents EXCEPT ![caller] =
              [birthEpoch |-> currentEpoch,
               lastHeartbeatEpoch |-> currentEpoch,
               alive |-> TRUE,
               totalPaid |-> poolAmount,
               rewardDebt |-> accRewardPerAge \div PRECISION,
               claimable |-> 0,
               agentId |-> agentId]]
        /\ agentIdToAddr' = IF isNew
                            THEN [agentIdToAddr EXCEPT ![agentId] = caller]
                            ELSE agentIdToAddr
        /\ registry' = IF isNew THEN Append(registry, caller) ELSE registry
        /\ totalAlive' = totalAlive + 1
        /\ totalEverRegistered' = totalEverRegistered + 1
        /\ totalAge' = totalAge + 1
        /\ UNCHANGED <<totalDead, accRewardPerAge, treasury,
                       totalRewardsDistributed>>

\* registerEffects that appends the caller to the registry on every registration
registerEffects_alwaysPush(caller, agentId) ==
    LET a == agents[caller]
        isNew == (a.birthEpoch = 0)
    IN  /\ treasuryBalance' = treasuryBalance + treasuryFee
        /\ agents' = [agents EXCEPT ![caller] =
              [birthEpoch |-> currentEpoch,
               lastHeartbeatEpoch |-> currentEpoch,
               alive |-> TRUE,
               totalPaid |-> poolAmount,
               rewardDebt |-> accRewardPerAge \div PRECISION,
               claimable |-> a.claimable,
               agentId |-> agentId]]
        /\ agentIdToAddr' = IF isNew
                            THEN [agentIdToAddr EXCEPT ![agentId] = caller]
                            ELSE agentIdToAddr
        /\ registry' = Append(registry, caller)
        /\ totalAlive' = totalAlive + 1
        /\ totalEverRegistered' = totalEverRegistered + 1
        /\ totalAge' = totalAge + 1
        /\ UNCHANGED <<totalDead, accRewardPerAge, treasury,
                       totalRewardsDistributed>>

\* registerEffects that rounds the rewardDebt of the new record up
registerEffects_debtRoundedUp(caller, agentId) ==
    LET a == agents[caller]
        isNew == (a.birthEpoch = 0)
    IN  /\ treasuryBalance' = treasuryBalance + treasuryFee
        /\ agents' = [agents EXCEPT ![caller] =
              [birthEpoch |-> currentEpoch,
               lastHeartbeatEpoch |-> currentEpoch,
               alive |-> TRUE,
               totalPaid |-> poolAmount,
               rewardDebt |-> (accRewardPerAge + PRECISION - 1) \div PRECISION,
               claimable |-> a.claimable,
               agentId |-> agentId]]
        /\ agentIdToAddr' = IF isNew
                            THEN [agentIdToAddr EXCEPT ![agentId] = caller]
                            ELSE agentIdToAddr
        /\ registry' = IF isNew THEN Append(registry, caller) ELSE registry
        /\ totalAlive' = totalAlive + 1
        /\ totalEverRegistered' = totalEverRegistered + 1
        /\ totalAge' = totalAge + 1
        /\ UNCHANGED <<totalDead, accRewardPerAge, treasury,
                       totalRewardsDistributed>>

\* registerEffects that counts a returning participant once
registerEffects_countsOnce(caller, agentId) ==
    LET a == agents[caller]
        isNew == (a.birthEpoch = 0)
    IN  /\ treasuryBalance' = treasuryBalance + treasuryFee
        /\ agents' = [agents EXCEPT ![caller] =
              [birthEpoch |-> currentEpoch,
               lastHeartbeatEpoch |-> currentEpoch,
               alive |-> TRUE,
               totalPaid |-> poolAmount,
               rewardDebt |-> accRewardPerAge \div PRECISION,
               claimable |-> a.claimable,
               agentId |-> agentId]]
        /\ agentIdToAddr' = IF isNew
                            THEN [agentIdToAddr EXCEPT ![agentId] = caller]
                            ELSE agentIdToAddr
        /\ registry' = IF isNew THEN Append(registry, caller) ELSE registry
        /\ totalAlive' = totalAlive + 1
        /\ totalEverRegistered' = IF isNew THEN totalEverRegistered + 1
                                  ELSE totalEverRegistered
        /\ totalAge' = totalAge + 1
        /\ UNCHANGED <<totalDead, accRewardPerAge, treasury,
                       totalRewardsDistributed>>

registerEffects(caller, agentId) ==
    LET a == agents[caller]
        isNew == (a.birthEpoch = 0)
    IN  /\ treasuryBalance' = treasuryBalance + treasuryFee
        /\ agents' = [agents EXCEPT ![caller] =
              [birthEpoch |-> currentEpoch,
               lastHeartbeatEpoch |-> currentEpoch,
               alive |-> TRUE,
               totalPaid |-> poolAmount,
               rewardDebt |-> accRewardPerAge \div PRECISION,
               claimable |-> a.claimable,
               agentId |-> agentId]]
        /\ agentIdToAddr' = IF isNew
                            THEN [agentIdToAddr EXCEPT ![agentId] = caller]
                            ELSE agentIdToAddr
        /\ registry' = IF isNew THEN Append(registry, caller) ELSE registry
        /\ totalAlive' = totalAlive + 1
        /\ totalEverRegistered' = totalEverRegistered + 1
        /\ totalAge' = totalAge + 1
        /\ UNCHANGED <<totalDead, accRewardPerAge, treasury,
                       totalRewardsDistributed>>

\* A call that reverts (a failed check, or a failed currency transfer) changes
\* no state: it is no step of the system.
register(caller, agentId, wallet) ==
    /\ registerError(caller, agentId, wallet) = "ok"
    /\ registerEffects(caller, agentId)
    /\ TransferIn(COST_PER_EPOCH)
    /\ payments' = payments + 1
    /\ UNCHANGED <<now, kills, dustBudget, inFlight, probe, auto>>

\* ---- heartbeat ----------------------------------------------------------
heartbeatError(caller) ==
    LET a == agents[caller] IN
    IF a.birthEpoch = 0 THEN "NotRegistered"
    ELSE IF ~a.alive THEN "AlreadyDead"
    ELSE IF currentEpoch = a.lastHeartbeatEpoch THEN "AlreadyHeartbeat"
    ELSE IF currentEpoch > a.lastHeartbeatEpoch + 1 THEN "MissedEpoch"
    ELSE IF Accrued(a, accRewardPerAge) < 0 THEN "Panic"
    ELSE "ok"

\* heartbeatEffects that leaves totalAge as it is
heartbeatEffects_noTotalAge(caller) ==
    LET a == agents[caller]
        age == AgeOf(a)
        pending == Accrued(a, accRewardPerAge)
        newAge == age + 1
    IN  /\ treasuryBalance' = treasuryBalance + treasuryFee
        /\ agents' = [agents EXCEPT ![caller] =
              [a EXCEPT !.claimable = a.claimable + pending,
                        !.totalPaid = a.totalPaid + poolAmount,
                        !.lastHeartbeatEpoch = currentEpoch,
                        !.rewardDebt = (newAge * accRewardPerAge) \div PRECISION]]
        /\ totalAge' = totalAge
        /\ UNCHANGED <<agentIdToAddr, registry, totalAlive, totalDead,
                       totalEverRegistered, accRewardPerAge, treasury,
                       totalRewardsDistributed>>

\* heartbeatEffects that resets rewardDebt for the age before the heartbeat
heartbeatEffects_debtOldAge(caller) ==
    LET a == agents[caller]
        age == AgeOf(a)
        pending == Accrued(a, accRewardPerAge)
    IN  /\ treasuryBalance' = treasuryBalance + treasuryFee
        /\ agents' = [agents EXCEPT ![caller] =
              [a EXCEPT !.claimable = a.claimable + pending,
                        !.totalPaid = a.totalPaid + poolAmount,
                        !.lastHeartbeatEpoch = currentEpoch,
                        !.rewardDebt = (age * accRewardPerAge) \div PRECISION]]
        /\ totalAge' = totalAge + 1
        /\ UNCHANGED <<agentIdToAddr, registry, totalAlive, totalDead,
                       totalEverRegistered, accRewardPerAge, treasury,
                       totalRewardsDistributed>>

\* heartbeatEffects that shares the payment out at once through accRewardPerAge
heartbeatEffects_sharesPayment(caller) ==
    LET a == agents[caller]
        age == AgeOf(a)
        pending == Accrued(a, accRewardPerAge)
        newAge == age + 1
    IN  /\ treasuryBalance' = treasuryBalance + treasuryFee
        /\ agents' = [agents EXCEPT ![caller] =
              [a EXCEPT !.claimable = a.claimable + pending,
                        !.totalPaid = a.totalPaid + poolAmount,
                        !.lastHeartbeatEpoch = currentEpoch,
                        !.rewardDebt = (newAge * accRewardPerAge) \div PRECISION]]
        /\ totalAge' = totalAge + 1
        /\ accRewardPerAge' = accRewardPerAge + (poolAmount * PRECISION) \div totalAge
        /\ UNCHANGED <<agentIdToAddr, registry, totalAlive, totalDead,
                       totalEverRegistered, treasury,
                       totalRewardsDistributed>>

heartbeatEffects(caller) ==
    LET a == agents[caller]
        age == AgeOf(a)
        pending == Accrued(a, accRewardPerAge)
        newAge == age + 1
    IN  /\ treasuryBalance' = treasuryBalance + treasuryFee
        /\ agents' = [agents EXCEPT ![caller] =
              [a EXCEPT !.claimable = a.claimable + pending,
                        !.totalPaid = a.totalPaid + poolAmount,
                        !.lastHeartbeatEpoch = currentEpoch,
                        !.rewardDebt = (newAge * accRewardPerAge) \div PRECISION]]
        /\ totalAge' = totalAge + 1
        /\ UNCHANGED <<agentIdToAddr, registry, totalAlive, totalDead,
                       totalEverRegistered, accRewardPerAge, treasury,
                       totalRewardsDistributed>>

heartbeat(caller) ==
    /\ heartbeatError(caller) = "ok"
    /\ heartbeatEffects(caller)
    /\ TransferIn(COST_PER_EPOCH)
    /\ payments' = payments + 1
    /\ UNCHANGED <<now, kills, dustBudget, inFlight, probe, auto>>

\* ---- kill ---------------------------------------------------------------
killError(target) ==
    LET a == agents[target] IN
    IF a.birthEpoch = 0 THEN "NotRegistered"
    ELSE IF ~a.alive THEN "AlreadyDead"
    ELSE IF currentEpoch <= a.lastHeartbeatEpoch + 1 THEN "NotDeadYet"
    ELSE IF Accrued(a, accRewardPerAge) < 0 THEN "Panic"
    ELSE IF totalAge < AgeOf(a) THEN "Panic"
    ELSE "ok"

\* accRewardPerAge after a kill that leaves _totalAge > 0
\* accAfterKill that takes the share out of the accumulator
accAfterKill_minus(acc, reward, remainingAge) ==
    acc - (reward * PRECISION) \div remainingAge

accAfterKill(acc, reward, remainingAge) ==
    acc + (reward * PRECISION) \div remainingAge

\* killOutcome that does not settle the target's accrued reward
killOutcome_noSettle(ags, tAge, acc, target) ==
    LET a == ags[target]
        age == AgeOf(a)
        reward == a.totalPaid
        remainingAge == tAge - age
    IN  [agents |-> [ags EXCEPT ![target] =
              [a EXCEPT !.claimable = IF remainingAge > 0
                                      THEN a.claimable
                                      ELSE a.claimable + reward,
                        !.rewardDebt = 0,
                        !.alive = FALSE]],
         totalAge |-> remainingAge,
         acc |-> IF remainingAge > 0
                 THEN accAfterKill(acc, reward, remainingAge)
                 ELSE acc]

\* killOutcome without the payout to the last participant
killOutcome_noRefund(ags, tAge, acc, target) ==
    LET a == ags[target]
        age == AgeOf(a)
        pending == Accrued(a, acc)
        reward == a.totalPaid
        remainingAge == tAge - age
    IN  [agents |-> [ags EXCEPT ![target] =
              [a EXCEPT !.claimable = a.claimable + pending,
                        !.rewardDebt = 0,
                        !.alive = FALSE]],
         totalAge |-> remainingAge,
         acc |-> IF remainingAge > 0
                 THEN accAfterKill(acc, reward, remainingAge)
                 ELSE acc]

\* The records, totalAge and accRewardPerAge that kill(target) leaves, as a
\* function of the ones it finds.
killOutcome(ags, tAge, acc, target) ==
    LET a == ags[target]
        age == AgeOf(a)
        pending == Accrued(a, acc)
        reward == a.totalPaid
        remainingAge == tAge - age
    IN  [agents |-> [ags EXCEPT ![target] =
              [a EXCEPT !.claimable = IF remainingAge > 0
                                      THEN a.claimable + pending
                                      ELSE a.claimable + pending + reward,
                        !.rewardDebt = 0,
                        !.alive = FALSE]],
         totalAge |-> remainingAge,
         acc |-> IF remainingAge > 0
                 THEN accAfterKill(acc, reward, remainingAge)
                 ELSE acc]

\* killEffects that leaves totalAlive as it is
killEffects_keepsTotalAlive(target) ==
    LET out == killOutcome(agents, totalAge, accRewardPerAge, target) IN
    /\ agents' = out.agents
    /\ totalDead' = totalDead + 1
    /\ totalAge' = out.totalAge
    /\ accRewardPerAge' = out.acc
    /\ totalRewardsDistributed' = totalRewardsDistributed + agents[target].totalPaid
    /\ UNCHANGED <<agentIdToAddr, registry, totalEverRegistered,
                   treasury, treasuryBalance, totalAlive>>

killEffects(target) ==
    LET out == killOutcome(agents, totalAge, accRewardPerAge, target) IN
    /\ agents' = out.agents
    /\ totalAlive' = totalAlive - 1
    /\ totalDead' = totalDead + 1
    /\ totalAge' = out.totalAge
    /\ accRewardPerAge' = out.acc
    /\ totalRewardsDistributed' = totalRewardsDistributed + agents[target].totalPaid
    /\ UNCHANGED <<agentIdToAddr, registry, totalEverRegistered,
                   treasury, treasuryBalance>>

kill(caller, target) ==
    /\ killError(target) = "ok"
    /\ killEffects(target)
    /\ kills' = kills + 1
    /\ dustBudget' = dustBudget + (totalAlive - 1)
    /\ UNCHANGED <<now, usdcBalance, totalIn, totalOut, payments, inFlight, probe, auto>>

\* ---- claimTreasury / transferTreasury -----------------------------------
claimTreasuryError(caller) ==
    IF caller # treasury THEN "NotTreasury"
    ELSE IF treasuryBalance = 0 THEN "NothingToClaim"
    ELSE IF usdcBalance < treasuryBalance THEN "TransferFailed"
    ELSE "ok"

\* claimTreasury that leaves treasuryBalance as it is
claimTreasury_keepsBalance(caller) ==
    /\ claimTreasuryError(caller) = "ok"
    /\ treasuryBalance' = treasuryBalance
    /\ TransferOut(treasuryBalance)
    /\ UNCHANGED <<agents, agentIdToAddr, registry, totalAlive, totalDead,
                   totalEverRegistered, totalAge, accRewardPerAge,
                   treasury, totalRewardsDistributed, now, kills,
                   dustBudget, payments, inFlight, probe, auto>>

claimTreasury(caller) ==
    /\ claimTreasuryError(caller) = "ok"
    /\ treasuryBalance' = 0
    /\ TransferOut(treasuryBalance)
    /\ UNCHANGED <<agents, agentIdToAddr, registry, totalAlive, totalDead,
                   totalEverRegistered, totalAge, accRewardPerAge,
                   treasury, totalRewardsDistributed, now, kills,
                   dustBudget, payments, inFlight, probe, auto>>

\* transferTreasuryError without the check of the caller
transferTreasuryError_anyCaller(caller, newTreasury) ==
    IF newTreasury = ZERO THEN "ZeroAddress"
    ELSE "ok"

transferTreasuryError(caller, newTreasury) ==
    IF caller # treasury THEN "NotTreasury"
    ELSE IF newTreasury = ZERO THEN "ZeroAddress"
    ELSE "ok"

transferTreasury(caller, newTreasury) ==
    /\ transferTreasuryError(caller, newTreasury) = "ok"
    /\ treasury' = newTreasury
    /\ UNCHANGED <<agents, agentIdToAddr, registry, totalAlive, totalDead,
                   totalEverRegistered, totalAge, accRewardPerAge,
                   treasuryBalance, totalRewardsDistributed, now,
                   usdcBalance, totalIn, totalOut, kills, dustBudget,
                   payments, inFlight, probe, auto>>

\* ---- claim --------------------------------------------------------------
\* claimPayout that pays only what is already settled
claimPayout_settledOnly(caller) == agents[caller].claimable

\* payout computed by claim(); negative stands for the checked-subtraction panic
claimPayout(caller) ==
    LET a == agents[caller] IN
    IF a.alive THEN Accrued(a, accRewardPerAge) + a.claimable
    ELSE a.claimable

claimError(caller) ==
    LET a == agents[caller] IN
    IF a.birthEpoch = 0 THEN "NotRegistered"
    ELSE IF a.alive /\ Accrued(a, accRewardPerAge) < 0 THEN "Panic"
    ELSE IF claimPayout(caller) = 0 THEN "NothingToClaim"
    ELSE IF usdcBalance < claimPayout(caller) THEN "TransferFailed"
    ELSE "ok"

\* claimEffects that does not zero claimable
claimEffects_keepsClaimable(caller) ==
    LET a == agents[caller] IN
    /\ agents' = [agents EXCEPT ![caller] =
          [a EXCEPT !.rewardDebt = IF a.alive
                                   THEN (AgeOf(a) * accRewardPerAge) \div PRECISION
                                   ELSE a.rewardDebt]]
    /\ UNCHANGED <<agentIdToAddr, registry, totalAlive, totalDead,
                   totalEverRegistered, totalAge, accRewardPerAge, treasury,
                   treasuryBalance, totalRewardsDistributed>>

claimEffects(caller) ==
    LET a == agents[caller] IN
    /\ agents' = [agents EXCEPT ![caller] =
          [a EXCEPT !.rewardDebt = IF a.alive
                                   THEN (AgeOf(a) * accRewardPerAge) \div PRECISION
                                   ELSE a.rewardDebt,
                    !.claimable = 0]]
    /\ UNCHANGED <<agentIdToAddr, registry, totalAlive, totalDead,
                   totalEverRegistered, totalAge, accRewardPerAge, treasury,
                   treasuryBalance, totalRewardsDistributed>>

claim(caller) ==
    /\ claimError(caller) = "ok"
    /\ claimEffects(caller)
    /\ TransferOut(claimPayout(caller))
    /\ UNCHANGED <<now, kills, dustBudget, payments, inFlight, probe, auto>>

\* ---- the clock ----------------------------------------------------------
Tick ==
    /\ now < MaxTime
    /\ now' = now + 1
    /\ UNCHANGED <<ledger, usdcBalance, totalIn, totalOut, kills, dustBudget,
                   payments, inFlight, probe, auto>>

\* ---- the system ---------------------------------------------------------
\* What identityRegistry.getAgentWallet(agentId) may answer: agent id i is
\* issued to wallet i + 1, and id 0 is one whose wallet the identity registry
\* lets its owner reassign (to any wallet, or to none).
getAgentWallet(agentId) ==
    IF agentId = 0 THEN Wallets \cup {ZERO} ELSE {agentId + 1}

Register == \E c \in Wallets, i \in AgentIds :
               \E w \in getAgentWallet(i) : register(c, i, w)
Heartbeat == \E c \in Wallets : heartbeat(c)
Kill == \E c \in Wallets, t \in Wallets : kill(c, t)
Claim == \E c \in Wallets : claim(c)
ClaimTreasury == \E c \in Wallets : claimTreasury(c)
TransferTreasury == \E c \in Wallets, n \in TreasuryCandidates :
                       transferTreasury(c, n)

Next ==
    \/ Register
    \/ Heartbeat
    \/ Kill
    \/ Claim
    \/ ClaimTreasury
    \/ TransferTreasury
    \/ Tick

Spec == Init /\ [][Next]_vars

\* ---- a larger population ------------------------------------------------
\* NumCrowd wallets, wallet c holding agent id c - 1.  They register in wallet
\* order, none of them sends a heartbeat and the treasury stays with the
\* deployer; kills, claims and the treasury claim come in any order.  Every
\* behaviour of SpecCrowd is a behaviour of the contract.
NumCrowd == 5
CrowdWallets == 1 .. NumCrowd

InitCrowd ==
    /\ agents = [w \in CrowdWallets |-> EmptyAgent]
    /\ agentIdToAddr = [i \in 0 .. (NumCrowd - 1) |-> ZERO]
    /\ registry = << >>
    /\ totalAlive = 0 /\ totalDead = 0 /\ totalEverRegistered = 0
    /\ totalAge = 0 /\ accRewardPerAge = 0
    /\ treasury = DEPLOYER /\ treasuryBalance = 0
    /\ totalRewardsDistributed = 0
    /\ now = 0
    /\ usdcBalance = 0 /\ totalIn = 0 /\ totalOut = 0
    /\ kills = 0 /\ dustBudget = 0 /\ payments = 0
    /\ inFlight = NoCall /\ probe = NoProbe /\ auto = NoAuto

RegisterCrowd == \E c \in CrowdWallets :
                    /\ c = Len(registry) + 1
                    /\ register(c, c - 1, c)
KillCrowd == \E t \in CrowdWallets : kill(DEPLOYER, t)
ClaimCrowd == \E c \in CrowdWallets : claim(c)
ClaimTreasuryCrowd == claimTreasury(DEPLOYER)

NextCrowd ==
    \/ RegisterCrowd
    \/ KillCrowd
    \/ ClaimCrowd
    \/ ClaimTreasuryCrowd
    \/ Tick

SpecCrowd == InitCrowd /\ [][NextCrowd]_vars

\* ---- a population that joins in waves ------------------------------------
\* NumWaves wallets, wallet c holding agent id c - 1, on a contract deployed
\* in epoch 1.  Registrations come in the odd epochs, the first one of each
\* wallet in wallet order and later ones whenever the wallet is dead;
\* heartbeats and kills come in any order, through epoch WavesEpoch, and
\* nobody claims.  Every behaviour of SpecWaves is a behaviour of the
\* contract.
NumWaves == 4
WavesEpoch == 4
WaveWallets == 1 .. NumWaves

InitWaves ==
    /\ agents = [w \in WaveWallets |-> EmptyAgent]
    /\ agentIdToAddr = [i \in 0 .. (NumWaves - 1) |-> ZERO]
    /\ registry = << >>
    /\ totalAlive = 0 /\ totalDead = 0 /\ totalEverRegistered = 0
    /\ totalAge = 0 /\ accRewardPerAge = 0
    /\ treasury = DEPLOYER /\ treasuryBalance = 0
    /\ totalRewardsDistributed = 0
    /\ now = EPOCH_DURATION
    /\ usdcBalance = 0 /\ totalIn = 0 /\ totalOut = 0
    /\ kills = 0 /\ dustBudget = 0 /\ payments = 0
    /\ inFlight = NoCall /\ probe = NoProbe /\ auto = NoAuto

RegisterWaves == \E c \in WaveWallets :
                    /\ currentEpoch % 2 = 1
                    /\ c <= Len(registry) + 1
                    /\ register(c, c - 1, c)
HeartbeatWaves == \E c \in WaveWallets : heartbeat(c)
KillWaves == \E t \in WaveWallets : kill(DEPLOYER, t)
TickWaves ==
    /\ currentEpoch < WavesEpoch
    /\ now' = now + EPOCH_DURATION
    /\ UNCHANGED <<ledger, usdcBalance, totalIn, totalOut, kills, dustBudget,
                   payments, inFlight, probe, auto>>

NextWaves ==
    \/ RegisterWaves
    \/ HeartbeatWaves
    \/ KillWaves
    \/ TickWaves

SpecWaves == InitWaves /\ [][NextWaves]_vars

\* ---- calls step by step: reverts and the currency transfer --------------
\* SpecCalls follows a call through its currency transfer.  A call whose
\* checks fail reverts.  register, heartbeat, claim and claimTreasury run
\* their checks and all their writes and then enter the transfer (inFlight
\* records the call and the storage it found); the transfer returns or fails,
\* and a failed transfer reverts the whole call.  While the transfer runs the
\* token may call the contract: kill and transferTreasury carry no reentrancy
\* guard, the four guarded functions revert.  block.timestamp does not move
\* inside a call.
Snapshot ==
    [agents |-> agents, agentIdToAddr |-> agentIdToAddr, registry |-> registry,
     totalAlive |-> totalAlive, totalDead |-> totalDead,
     totalEverRegistered |-> totalEverRegistered, totalAge |-> totalAge,
     accRewardPerAge |-> accRewardPerAge, treasury |-> treasury,
     treasuryBalance |-> treasuryBalance,
     totalRewardsDistributed |-> totalRewardsDistributed,
     kills |-> kills, dustBudget |-> dustBudget, payments |-> payments]

\* the storage is the one recorded in saved
StorageIs(saved) ==
    /\ agents = saved.agents
    /\ agentIdToAddr = saved.agentIdToAddr
    /\ registry = saved.registry
    /\ totalAlive = saved.totalAlive
    /\ totalDead = saved.totalDead
    /\ totalEverRegistered = saved.totalEverRegistered
    /\ totalAge = saved.totalAge
    /\ accRewardPerAge = saved.accRewardPerAge
    /\ treasury = saved.treasury
    /\ treasuryBalance = saved.treasuryBalance
    /\ totalRewardsDistributed = saved.totalRewardsDistributed

\* a revert that leaves the writes of the call in place
Revert_keepsWrites(saved) ==
    UNCHANGED <<ledger, kills, dustBudget, payments,
                now, usdcBalance, totalIn, totalOut, probe, auto>>

\* revert of a call that found the storage saved: every write made since,
\* nested calls included, is undone and no currency moves
Revert(saved) ==
    /\ agents' = saved.agents
    /\ agentIdToAddr' = saved.agentIdToAddr
    /\ registry' = saved.registry
    /\ totalAlive' = saved.totalAlive
    /\ totalDead' = saved.totalDead
    /\ totalEverRegistered' = saved.totalEverRegistered
    /\ totalAge' = saved.totalAge
    /\ accRewardPerAge' = saved.accRewardPerAge
    /\ treasury' = saved.treasury
    /\ treasuryBalance' = saved.treasuryBalance
    /\ totalRewardsDistributed' = saved.totalRewardsDistributed
    /\ kills' = saved.kills
    /\ dustBudget' = saved.dustBudget
    /\ payments' = saved.payments
    /\ UNCHANGED <<now, usdcBalance, totalIn, totalOut, probe, auto>>

\* modifier nonReentrant
nonReentrantError ==
    IF inFlight # NoCall THEN "ReentrancyGuardReentrantCall" ELSE "ok"

\* the call has done its writes and invokes the transfer of amount
EnterTransfer(op, caller, amount, incoming) ==
    /\ inFlight' = [op |-> op, caller |-> caller, amount |-> amount,
                    incoming |-> incoming, saved |-> Snapshot]
    /\ UNCHANGED <<now, usdcBalance, totalIn, totalOut, kills, dustBudget, probe, auto>>

registerCall(caller, agentId, wallet) ==
    IF nonReentrantError = "ok" /\ registerError(caller, agentId, wallet) = "ok"
    THEN /\ registerEffects(caller, agentId)
         /\ payments' = payments + 1
         /\ EnterTransfer("register", caller, COST_PER_EPOCH, TRUE)
    ELSE Revert(Snapshot) /\ UNCHANGED inFlight

heartbeatCall(caller) ==
    IF nonReentrantError = "ok" /\ heartbeatError(caller) = "ok"
    THEN /\ heartbeatEffects(caller)
         /\ payments' = payments + 1
         /\ EnterTransfer("heartbeat", caller, COST_PER_EPOCH, TRUE)
    ELSE Revert(Snapshot) /\ UNCHANGED inFlight

\* claim reverts with NothingToClaim after its writes, which the revert undoes
claimCall(caller) ==
    IF nonReentrantError = "ok"
       /\ claimError(caller) \in {"ok", "TransferFailed"}
    THEN /\ claimEffects(caller)
         /\ payments' = payments
         /\ EnterTransfer("claim", caller, claimPayout(caller), FALSE)
    ELSE Revert(Snapshot) /\ UNCHANGED inFlight

claimTreasuryCall(caller) ==
    IF nonReentrantError = "ok"
       /\ claimTreasuryError(caller) \in {"ok", "TransferFailed"}
    THEN /\ treasuryBalance' = 0
         /\ UNCHANGED <<agents, agentIdToAddr, registry, totalAlive, totalDead,
                        totalEverRegistered, totalAge, accRewardPerAge,
                        treasury, totalRewardsDistributed, payments>>
         /\ EnterTransfer("claimTreasury", caller, treasuryBalance, FALSE)
    ELSE Revert(Snapshot) /\ UNCHANGED inFlight

killCall(caller, target) ==
    IF killError(target) = "ok"
    THEN kill(caller, target)
    ELSE Revert(Snapshot) /\ UNCHANGED inFlight

transferTreasuryCall(caller, newTreasury) ==
    IF transferTreasuryError(caller, newTreasury) = "ok"
    THEN transferTreasury(caller, newTreasury)
    ELSE Revert(Snapshot) /\ UNCHANGED inFlight

\* what the call does once the transfer has returned, with a late write
afterTransfer_lateFee ==
    /\ treasuryBalance' = treasuryBalance + 1
    /\ UNCHANGED <<agents, agentIdToAddr, registry, totalAlive, totalDead,
                   totalEverRegistered, totalAge, accRewardPerAge, treasury,
                   totalRewardsDistributed, now, kills, dustBudget, payments,
                   probe, auto>>

\* what the call does once the transfer has returned: nothing, the transfer
\* is its last statement
afterTransfer ==
    UNCHANGED <<ledger, now, kills, dustBudget, payments, probe, auto>>

TransferReturns ==
    /\ inFlight # NoCall
    /\ IF inFlight.incoming
       THEN TransferIn(inFlight.amount)
       ELSE usdcBalance >= inFlight.amount /\ TransferOut(inFlight.amount)
    /\ inFlight' = NoCall
    /\ afterTransfer

TransferFails ==
    /\ inFlight # NoCall
    /\ Revert(inFlight.saved)
    /\ inFlight' = NoCall

\* the wallets that make calls in SpecCalls, and the agent ids they use
NumCallers == 2
Callers == 1 .. NumCallers
CallerIds == 0 .. (NumCallers - 1)

RegisterCall == \E c \in Callers, i \in CallerIds :
                   \E w \in getAgentWallet(i) \cap (Callers \cup {ZERO}) :
                      registerCall(c, i, w)
HeartbeatCall == \E c \in Callers : heartbeatCall(c)
KillCall == \E c \in Callers, t \in Callers : killCall(c, t)
ClaimCall == \E c \in Callers : claimCall(c)
ClaimTreasuryCall == \E c \in Callers : claimTreasuryCall(c)
TransferTreasuryCall == \E c \in Callers, n \in TreasuryCandidates :
                           transferTreasuryCall(c, n)
TickCalls == inFlight = NoCall /\ Tick

NextCalls ==
    \/ RegisterCall
    \/ HeartbeatCall
    \/ KillCall
    \/ ClaimCall
    \/ ClaimTreasuryCall
    \/ TransferTreasuryCall
    \/ TransferReturns
    \/ TransferFails
    \/ TickCalls

SpecCalls == Init /\ [][NextCalls]_vars

\* ---- batch queries ------------------------------------------------------
\* Indices are uint256; the range of uint256 is scaled from 2^256 to 2^8, and
\* the longest array "new T[](length)" allocates (2^64 - 1 elements, a longer
\* one ends the call with Panic(0x41)) from 2^64 - 1 to 2^4 - 1.  Registry
\* index k of the contract, counted from 0, is registry[k + 1] here.
UINT256_RANGE == 256
MAX_ARRAY_LENGTH == 15

\* the indices the queries are called with
MaxIndex == 6
QueryIndices == 0 .. MaxIndex

\* AgentInfo whose killable flag leaves out the epoch of grace
AgentInfo_noGrace(addr) ==
    LET a == agents[addr]
        age_ == IF a.birthEpoch = 0 THEN 0 ELSE AgeOf(a)
    IN  [addr |-> addr,
         agentId |-> a.agentId,
         birthEpoch |-> a.birthEpoch,
         lastHeartbeatEpoch |-> a.lastHeartbeatEpoch,
         alive |-> a.alive,
         killable |-> a.alive /\ currentEpoch > a.lastHeartbeatEpoch,
         age |-> age_,
         totalPaid |-> a.totalPaid,
         pendingReward |-> IF a.birthEpoch = 0 THEN 0
                           ELSE IF ~a.alive THEN a.claimable
                           ELSE Accrued(a, accRewardPerAge) + a.claimable]

\* the AgentInfo that getAgentList builds for one registry entry
AgentInfo(addr) ==
    LET a == agents[addr]
        age_ == IF a.birthEpoch = 0 THEN 0 ELSE AgeOf(a)
    IN  [addr |-> addr,
         agentId |-> a.agentId,
         birthEpoch |-> a.birthEpoch,
         lastHeartbeatEpoch |-> a.lastHeartbeatEpoch,
         alive |-> a.alive,
         killable |-> a.alive /\ currentEpoch > a.lastHeartbeatEpoch + 1,
         age |-> age_,
         totalPaid |-> a.totalPaid,
         pendingReward |-> IF a.birthEpoch = 0 THEN 0
                           ELSE IF ~a.alive THEN a.claimable
                           ELSE Accrued(a, accRewardPerAge) + a.claimable]

\* the checked subtraction in the reward of an entry underflows
RewardPanics(addr) ==
    LET a == agents[addr] IN
    a.birthEpoch # 0 /\ a.alive /\ Accrued(a, accRewardPerAge) < 0

\* endIndex after the clamp, and the unchecked endIndex - startIndex + 1
ClampedEnd(endIndex) ==
    IF endIndex >= Len(registry) THEN Len(registry) - 1 ELSE endIndex
\* RangeLength that leaves out the entry at endIndex
RangeLength_exclusive(startIndex, endIndex) ==
    (ClampedEnd(endIndex) - startIndex) % UINT256_RANGE

RangeLength(startIndex, endIndex) ==
    (ClampedEnd(endIndex) - startIndex + 1) % UINT256_RANGE

\* some registry[startIndex + i] with i < length lies outside the registry
OutOfRegistry(startIndex, length) ==
    \E i \in 0 .. (length - 1) :
       (startIndex + i) % UINT256_RANGE >= Len(registry)

getAgentList(startIndex, endIndex) ==
    LET length == RangeLength(startIndex, endIndex) IN
    IF Len(registry) = 0 THEN [error |-> "ok", list |-> << >>]
    ELSE IF startIndex > endIndex THEN [error |-> "InvalidRange", list |-> << >>]
    ELSE IF length > MAX_ARRAY_LENGTH THEN [error |-> "Panic", list |-> << >>]
    ELSE IF OutOfRegistry(startIndex, length) THEN [error |-> "Panic", list |-> << >>]
    ELSE IF \E i \in 1 .. length : RewardPanics(registry[startIndex + i])
         THEN [error |-> "Panic", list |-> << >>]
    ELSE [error |-> "ok",
          list |-> [i \in 1 .. length |-> AgentInfo(registry[startIndex + i])]]

getKillable(startIndex, endIndex) ==
    LET rangeLen == RangeLength(startIndex, endIndex)
        IsDue(addr) == agents[addr].alive
                       /\ currentEpoch > agents[addr].lastHeartbeatEpoch + 1
    IN
    IF Len(registry) = 0 THEN [error |-> "ok", list |-> << >>]
    ELSE IF startIndex > endIndex THEN [error |-> "InvalidRange", list |-> << >>]
    ELSE IF startIndex + rangeLen > UINT256_RANGE
            \/ OutOfRegistry(startIndex, rangeLen)
         THEN [error |-> "Panic", list |-> << >>]
    ELSE [error |-> "ok",
          list |-> SelectSeq(SubSeq(registry, startIndex + 1, startIndex + rangeLen),
                             IsDue)]

\* ---- paginated fetches of the command line client ------------------------
\* fetchAllAgents / fetchAllKillable read the registry page by page, the state
\* not changing between the pages; pageSize is PAGE_SIZE (100 in the client).
\* The result is the concatenation of the pages, or the error of a page.
MaxPageSize == 3
PageSizes == 1 .. MaxPageSize

PageEnd(start, regLen, pageSize) ==
    IF start + pageSize - 1 < regLen - 1 THEN start + pageSize - 1 ELSE regLen - 1

RECURSIVE fetchAgentsFrom(_, _, _)
fetchAgentsFrom(start, regLen, pageSize) ==
    IF ~(start < regLen) THEN [error |-> "ok", list |-> << >>]
    ELSE LET batch == getAgentList(start, PageEnd(start, regLen, pageSize))
             rest == fetchAgentsFrom(start + pageSize, regLen, pageSize)
         IN  IF batch.error # "ok" THEN batch
             ELSE IF rest.error # "ok" THEN rest
             ELSE [error |-> "ok", list |-> batch.list \o rest.list]

fetchAllAgents(regLen, pageSize) == fetchAgentsFrom(0, regLen, pageSize)

RECURSIVE fetchKillableFrom(_, _, _)
fetchKillableFrom(start, regLen, pageSize) ==
    IF ~(start < regLen) THEN [error |-> "ok", list |-> << >>]
    ELSE LET batch == getKillable(start, PageEnd(start, regLen, pageSize))
             rest == fetchKillableFrom(start + pageSize, regLen, pageSize)
         IN  IF batch.error # "ok" THEN batch
             ELSE IF rest.error # "ok" THEN rest
             ELSE [error |-> "ok", list |-> batch.list \o rest.list]

fetchAllKillable(regLen, pageSize) == fetchKillableFrom(0, regLen, pageSize)

\* ---- the auto command of the command line client ------------------------
\* One agent (AGENT) registers and then keeps alive with "las auto"; it is
\* funded, so its transfers succeed.  A run of auto is a sequence of reads and
\* transactions, and the other wallets and the clock move between them:
\*   idle -> heartbeat -> scan -> kill ... -> claim -> idle.
\* auto.started is the epoch the run began in, auto.ran the last epoch a run
\* began and ended in, auto.hb what became of the heartbeat of the run,
\* auto.targets the addresses read from getKillable that are still to be
\* killed, auto.outcome how the last run ended, auto.registered whether the
\* agent had registered when the run began, auto.raced whether a kill
\* transaction of the run failed.
\* The agent runs auto at least once in every epoch: once it is registered the
\* clock leaves an epoch only after a run that began and ended in it.
AGENT == NumWallets
Rivals == Wallets \ {AGENT}
AgentRegistered == \E k \in 1 .. Len(registry) : registry[k] = AGENT

InitAuto ==
    /\ agents = [w \in Wallets |-> EmptyAgent]
    /\ agentIdToAddr = [i \in AgentIds |-> ZERO]
    /\ registry = << >>
    /\ totalAlive = 0 /\ totalDead = 0 /\ totalEverRegistered = 0
    /\ totalAge = 0 /\ accRewardPerAge = 0
    /\ treasury = DEPLOYER /\ treasuryBalance = 0
    /\ totalRewardsDistributed = 0
    /\ now = 0
    /\ usdcBalance = 0 /\ totalIn = 0 /\ totalOut = 0
    /\ kills = 0 /\ dustBudget = 0 /\ payments = 0
    /\ inFlight = NoCall /\ probe = NoProbe
    /\ auto = [pc |-> "idle", started |-> 0, ran |-> -1, hb |-> "none",
               targets |-> << >>, outcome |-> "none", registered |-> FALSE,
               raced |-> FALSE]

\* the run ends with outcome
AutoEnds(outcome) ==
    [auto EXCEPT !.pc = "idle",
                 !.outcome = outcome,
                 !.targets = << >>,
                 !.ran = IF auto.started = currentEpoch
                         THEN currentEpoch ELSE auto.ran]

AutoReads == UNCHANGED <<ledger, now, usdcBalance, totalIn, totalOut, kills,
                         dustBudget, payments, inFlight, probe>>

\* 1. isAlive, isKillable, pendingReward; "Not alive" ends the run
AutoStart ==
    /\ auto.pc = "idle"
    /\ auto' = IF RewardPanics(AGENT)
               THEN [AutoEnds("threw") EXCEPT !.started = currentEpoch,
                                              !.ran = currentEpoch,
                                              !.hb = "none",
                                              !.raced = FALSE,
                                              !.registered = AgentRegistered]
               ELSE IF ~isAlive(AGENT)
               THEN [AutoEnds("notAlive") EXCEPT !.started = currentEpoch,
                                                 !.ran = currentEpoch,
                                                 !.hb = "none",
                                                 !.raced = FALSE,
                                                 !.registered = AgentRegistered]
               ELSE [auto EXCEPT !.pc = "heartbeat",
                                 !.started = currentEpoch,
                                 !.hb = "none",
                                 !.outcome = "running",
                                 !.raced = FALSE,
                                 !.registered = AgentRegistered]
    /\ AutoReads

\* 2. the heartbeat transaction: AlreadyHeartbeat is skipped, MissedEpoch ends
\* the run, any other error is thrown
AutoHeartbeat ==
    /\ auto.pc = "heartbeat"
    /\ LET e == heartbeatError(AGENT) IN
       IF e = "ok"
       THEN /\ heartbeatEffects(AGENT)
            /\ TransferIn(COST_PER_EPOCH)
            /\ payments' = payments + 1
            /\ UNCHANGED <<now, kills, dustBudget, inFlight, probe>>
            /\ auto' = [auto EXCEPT !.pc = "scan", !.hb = "sent"]
       ELSE /\ AutoReads
            /\ auto' = IF e = "AlreadyHeartbeat"
                       THEN [auto EXCEPT !.pc = "scan", !.hb = "skipped"]
                       ELSE IF e = "MissedEpoch"
                       THEN [AutoEnds("missed") EXCEPT !.hb = "missed"]
                       ELSE [AutoEnds("threw") EXCEPT !.hb = "threw"]

\* 3. registryLength and the pages of getKillable
AutoScan ==
    /\ auto.pc = "scan"
    /\ LET killable == fetchAllKillable(Len(registry), MaxPageSize) IN
       auto' = IF killable.error # "ok" THEN AutoEnds("threw")
               ELSE IF killable.list = << >> THEN [auto EXCEPT !.pc = "claim"]
               ELSE [auto EXCEPT !.pc = "kill", !.targets = killable.list]
    /\ AutoReads

\* the kill loop without the catch: a failed kill transaction is thrown
AutoKill_throws ==
    /\ auto.pc = "kill"
    /\ LET target == Head(auto.targets) IN
       IF killError(target) = "ok"
       THEN /\ killEffects(target)
            /\ kills' = kills + 1
            /\ dustBudget' = dustBudget + (totalAlive - 1)
            /\ UNCHANGED <<now, usdcBalance, totalIn, totalOut, payments,
                           inFlight, probe>>
            /\ auto' = [auto EXCEPT !.targets = Tail(auto.targets),
                                    !.pc = IF Tail(auto.targets) = << >>
                                           THEN "claim" ELSE "kill"]
       ELSE /\ AutoReads
            /\ auto' = [AutoEnds("threw") EXCEPT !.raced = TRUE]

\* one kill transaction of the loop; a failed one is caught and skipped
AutoKill ==
    /\ auto.pc = "kill"
    /\ LET target == Head(auto.targets) IN
       IF killError(target) = "ok"
       THEN /\ killEffects(target)
            /\ kills' = kills + 1
            /\ dustBudget' = dustBudget + (totalAlive - 1)
            /\ UNCHANGED <<now, usdcBalance, totalIn, totalOut, payments,
                           inFlight, probe>>
            /\ auto' = [auto EXCEPT !.targets = Tail(auto.targets),
                                    !.pc = IF Tail(auto.targets) = << >>
                                           THEN "claim" ELSE "kill"]
       ELSE /\ AutoReads
            /\ auto' = [auto EXCEPT !.targets = Tail(auto.targets),
                                    !.raced = TRUE,
                                    !.pc = IF Tail(auto.targets) = << >>
                                           THEN "claim" ELSE "kill"]

\* 4. and 5. pendingReward, the claim transaction when it is not 0, the summary
AutoClaim ==
    /\ auto.pc = "claim"
    /\ IF RewardPanics(AGENT)
       THEN AutoReads /\ auto' = AutoEnds("threw")
       ELSE IF pendingReward(AGENT) > 0
       THEN IF claimError(AGENT) = "ok"
            THEN /\ claimEffects(AGENT)
                 /\ TransferOut(claimPayout(AGENT))
                 /\ UNCHANGED <<now, kills, dustBudget, payments, inFlight, probe>>
                 /\ auto' = AutoEnds("claimed")
            ELSE AutoReads /\ auto' = AutoEnds("threw")
       ELSE AutoReads /\ auto' = AutoEnds("done")

\* las register, by the agent, between runs
AgentRegisters ==
    /\ auto.pc = "idle"
    /\ \E i \in AgentIds : \E w \in getAgentWallet(i) : register(AGENT, i, w)

RivalRegisters == \E c \in Rivals, i \in AgentIds :
                     \E w \in getAgentWallet(i) : register(c, i, w)
RivalHeartbeats == \E c \in Rivals : heartbeat(c)
RivalKills == \E c \in Rivals, t \in Wallets : kill(c, t)
RivalClaims == \E c \in Rivals : claim(c)

TickAuto ==
    /\ AgentRegistered => auto.ran = currentEpoch
    /\ Tick

NextAuto ==
    \/ AutoStart
    \/ AutoHeartbeat
    \/ AutoScan
    \/ AutoKill
    \/ AutoClaim
    \/ AgentRegisters
    \/ RivalRegisters
    \/ RivalHeartbeats
    \/ RivalKills
    \/ RivalClaims
    \/ TickAuto

SpecAuto == InitAuto /\ [][NextAuto]_vars

\* ---- the payment arithmetic, for every COST_PER_EPOCH -------------------
\* One participant's payments under any COST_PER_EPOCH the constructor accepts
\* (1 .. type(uint96).max).  totalPaid is a uint96 written by a cast on register
\* and by an unchecked addition on heartbeat; type(uint96).max is scaled from
\* 2^96 - 1 to 2^8 - 1.  probe.alive, probe.age, probe.totalPaid and
\* probe.treasuryBalance are the fields of that name, probe.taken is the
\* currency the calls have taken from the caller, probe.payments the number
\* of accepted registrations and heartbeats, probe.distributed the
\* participant's part of totalRewardsDistributed.
MAX_UINT96 == 255
MaxAge == 4

AsUint96(x) == x % (MAX_UINT96 + 1)

treasuryFeeOf(cost) == (cost * TREASURY_BPS) \div BPS_DENOMINATOR
poolAmountOf(cost) == cost - treasuryFeeOf(cost)

InitPaid ==
    /\ agents = [w \in Wallets |-> EmptyAgent]
    /\ agentIdToAddr = [i \in AgentIds |-> ZERO]
    /\ registry = << >>
    /\ totalAlive = 0 /\ totalDead = 0 /\ totalEverRegistered = 0
    /\ totalAge = 0 /\ accRewardPerAge = 0
    /\ treasury = DEPLOYER /\ treasuryBalance = 0
    /\ totalRewardsDistributed = 0
    /\ now = 0
    /\ usdcBalance = 0 /\ totalIn = 0 /\ totalOut = 0
    /\ kills = 0 /\ dustBudget = 0 /\ payments = 0
    /\ inFlight = NoCall /\ auto = NoAuto
    /\ \E cost \in 1 .. MAX_UINT96 :
          probe = [cost |-> cost, op |-> "none", alive |-> FALSE, age |-> 0,
                   totalPaid |-> 0, treasuryBalance |-> 0, taken |-> 0,
                   payments |-> 0, distributed |-> 0]

registerPaid(p) ==
    [p EXCEPT !.op = "register",
              !.alive = TRUE,
              !.age = 1,
              !.totalPaid = AsUint96(poolAmountOf(p.cost)),
              !.treasuryBalance = p.treasuryBalance + treasuryFeeOf(p.cost),
              !.taken = p.taken + p.cost,
              !.payments = p.payments + 1]

heartbeatPaid(p) ==
    [p EXCEPT !.op = "heartbeat",
              !.age = p.age + 1,
              !.totalPaid = AsUint96(p.totalPaid + AsUint96(poolAmountOf(p.cost))),
              !.treasuryBalance = p.treasuryBalance + treasuryFeeOf(p.cost),
              !.taken = p.taken + p.cost,
              !.payments = p.payments + 1]

killPaid(p) ==
    [p EXCEPT !.op = "kill",
              !.alive = FALSE,
              !.distributed = p.distributed + p.totalPaid]

PaidFrame ==
    UNCHANGED <<ledger, now, usdcBalance, totalIn, totalOut, kills, dustBudget,
                payments, inFlight, auto>>

RegisterPaid == ~probe.alive /\ probe.taken < MaxAge * probe.cost
                   /\ probe' = registerPaid(probe) /\ PaidFrame
HeartbeatPaid == probe.alive /\ probe.age < MaxAge
                   /\ probe' = heartbeatPaid(probe) /\ PaidFrame
KillPaid == probe.alive /\ probe' = killPaid(probe) /\ PaidFrame

NextPaid ==
    \/ RegisterPaid
    \/ HeartbeatPaid
    \/ KillPaid

SpecPaid == InitPaid /\ [][NextPaid]_vars

\* ---- quantities the claims are about ---------------------------------
RECURSIVE SumOver(_, _)
SumOver(f, S) ==
    IF S = {} THEN 0
    ELSE LET x == CHOOSE y \in S : TRUE IN f[x] + SumOver(f, S \ {x})

Abs(x) == IF x < 0 THEN -x ELSE x

Participants == DOMAIN agents
Ids == DOMAIN agentIdToAddr
AliveSet == {w \in Participants : agents[w].alive}

\* sum of the stored claimable fields
SumClaimable == SumOver([w \in Participants |-> agents[w].claimable], Participants)

\* sum of totalPaid over the records whose alive flag is set
SumLivingPaid == SumOver([w \in Participants |-> agents[w].totalPaid], AliveSet)

\* reward accrued since the last settlement by the records whose alive flag is set
SumAccrued ==
    SumOver([w \in Participants |-> Accrued(agents[w], accRewardPerAge)], AliveSet)

AllClaimed == \A w \in Participants : pendingReward(w) = 0

\* C2: when no alive flag is set and every participant has claimed its whole
\* pendingReward, the contract holds treasuryBalance plus at most 2 units
\* of dust, never less than treasuryBalance; once the treasury has claimed
\* too, it holds at most 2 units.
C2_NothingStuck ==
    (totalAlive = 0 /\ AllClaimed) =>
        /\ usdcBalance >= treasuryBalance
        /\ usdcBalance <= treasuryBalance + 2
        /\ (treasuryBalance = 0 => usdcBalance <= 2)

\* ---- C3 -----------------------------------------------------------------
\* gain is within one unit of reward * age / remainingAge
WithinOneOfShare(gain, reward, age, remainingAge) ==
    Abs(gain * remainingAge - reward * age) <= remainingAge

\* C3: a kill that leaves totalAge > 0 raises the pendingReward of every
\* participant whose alive flag remains set by totalPaid(target) * age /
\* totalAge (the remaining total age), within one unit.
C3_AgeWeighted ==
    [][\A c \in Participants, t \in Participants :
         (kill(c, t) /\ totalAge' > 0) =>
            \A w \in Participants :
               agents'[w].alive =>
                  WithinOneOfShare(pendingReward(w)' - pendingReward(w),
                                   agents[t].totalPaid, AgeOf(agents[w]),
                                   totalAge')]_vars

\* ---- C4 -----------------------------------------------------------------
\* the outcome of kill(x) followed by kill(y), computed from the current state
KillBoth(x, y) ==
    LET s1 == killOutcome(agents, totalAge, accRewardPerAge, x)
    IN  killOutcome(s1.agents, s1.totalAge, s1.acc, y)

\* C4: when x and y can both be killed, kill(x) first lets y absorb
\* totalPaid(x) * age(y) / (totalAge - age(x)) (within one unit), this amount is
\* in y's claimable after kill(y), and x ends with what it had accrued before;
\* in the opposite order x absorbs its share of totalPaid(y) instead, so the
\* final balances differ with the order.
C4_KillOrder ==
    \A x \in Participants, y \in Participants :
       (x # y /\ killError(x) = "ok" /\ killError(y) = "ok") =>
          LET s1 == killOutcome(agents, totalAge, accRewardPerAge, x)
              xy == KillBoth(x, y)
              yx == KillBoth(y, x)
              gainY == Accrued(s1.agents[y], s1.acc) - Accrued(agents[y], accRewardPerAge)
              ownY == IF xy.totalAge = 0 THEN agents[y].totalPaid ELSE 0
              afterX == totalAge - AgeOf(agents[x])
          IN  /\ WithinOneOfShare(gainY, agents[x].totalPaid, AgeOf(agents[y]), afterX)
              /\ xy.agents[y].claimable = pendingReward(y) + gainY + ownY
              /\ xy.agents[x].claimable = pendingReward(x)
              /\ yx.agents[y].claimable = pendingReward(y)
              /\ (agents[x].totalPaid * AgeOf(agents[y]) >= 2 * afterX)
                    => xy.agents[y].claimable > yx.agents[y].claimable

\* two participants are killable at once, next to a third whose flag is set
C4_Witness ==
    \E x \in Participants, y \in Participants :
       /\ x # y /\ killError(x) = "ok" /\ killError(y) = "ok"
       /\ totalAlive = 3
       /\ agents[x].totalPaid * AgeOf(agents[y]) >= 2 * (totalAge - AgeOf(agents[x]))
       /\ \E z \in Participants : agents[z].alive /\ AgeOf(agents[z]) > 1

\* ---- C5 -----------------------------------------------------------------
\* C5: a kill that removes the last participant whose alive flag is set adds
\* the target's own totalPaid to its claimable on top of its settled reward,
\* leaves accRewardPerAge as it is and changes no other participant's record.
C5_LastPayout ==
    [][\A c \in Participants, t \in Participants :
         (kill(c, t) /\ totalAge' = 0) =>
            /\ agents'[t].claimable = pendingReward(t) + agents[t].totalPaid
            /\ accRewardPerAge' = accRewardPerAge
            /\ totalAlive' = 0
            /\ \A w \in Participants \ {t} : agents'[w] = agents[w]]_vars

\* the last participant was killed holding reward of earlier kills
C5_Witness ==
    /\ totalAlive = 0 /\ totalAge = 0 /\ kills >= 2
    /\ \E t \in Participants :
          /\ agents[t].claimable > agents[t].totalPaid
          /\ agents[t].totalPaid > 0

\* ---- C6 -----------------------------------------------------------------
\* C6: a register call by a participant with a prior record keeps its
\* claimable, pendingReward right after the call equals that claimable, and
\* a claim in the state right after the call pays exactly it.
C6_CarryOver ==
    [][\A c \in Participants, i \in Ids, w \in Participants :
         (register(c, i, w) /\ agents[c].birthEpoch # 0) =>
            /\ agents'[c].claimable = agents[c].claimable
            /\ pendingReward(c)' = agents[c].claimable
            /\ (agents[c].claimable > 0 =>
                  /\ claimError(c)' = "ok"
                  /\ claimPayout(c)' = agents[c].claimable)]_vars

\* a participant in its second life, at age 1, still holding unclaimed reward
C6_Witness ==
    \E c \in Participants :
       /\ agents[c].alive /\ AgeOf(agents[c]) = 1
       /\ agents[c].claimable > 0
       /\ pendingReward(c) = agents[c].claimable
       /\ totalEverRegistered > Len(registry)

\* ---- C7 -----------------------------------------------------------------
\* C7: a participant whose last accepted payment (registration or heartbeat)
\* was at epoch e, and that is not killed, is alive and not killable at epochs
\* e and e + 1 and is killable and not alive from epoch e + 2 on.
C7_Window ==
    \A w \in Participants :
       LET e == agents[w].lastHeartbeatEpoch IN
       agents[w].alive =>
          /\ currentEpoch >= e
          /\ (currentEpoch <= e + 1 => (isAlive(w) /\ ~isKillable(w)))
          /\ (currentEpoch >= e + 2 => (~isAlive(w) /\ isKillable(w)))

C7_Stamps ==
    /\ \A c \in Participants, i \in Ids, w \in Participants :
          register(c, i, w) =>
             /\ agents'[c].birthEpoch = currentEpoch
             /\ agents'[c].lastHeartbeatEpoch = currentEpoch
    /\ \A c \in Participants :
          heartbeat(c) => agents'[c].lastHeartbeatEpoch = currentEpoch
    /\ \A w \in Participants :
          (agents[w].alive /\ agents'[w].alive /\ kills' = kills /\ payments' = payments)
             => agents'[w].lastHeartbeatEpoch = agents[w].lastHeartbeatEpoch

C7_GraceWindow == [](C7_Window) /\ [][C7_Stamps]_vars

\* a participant that registered and never sent a heartbeat, two epochs later
C7_Witness ==
    \E w \in Participants :
       /\ agents[w].alive
       /\ agents[w].birthEpoch = agents[w].lastHeartbeatEpoch
       /\ currentEpoch = agents[w].birthEpoch + 2
       /\ isKillable(w) /\ ~isAlive(w)

\* ---- C8 -----------------------------------------------------------------
\* C8: kill(target) succeeds exactly when isKillable(target) is true, whoever
\* the caller is.
C8_KillMatchesView ==
    \A t \in Participants : (killError(t) = "ok") <=> isKillable(t)

\* ---- C9 -----------------------------------------------------------------
\* C9: a successful claim pays the caller exactly the pendingReward it had
\* before the call and leaves pendingReward 0; as long as no kill happens
\* a further claim fails with NothingToClaim.
C9_ClaimExact ==
    [][/\ \A c \in Participants :
            claim(c) =>
               /\ totalOut' - totalOut = pendingReward(c)
               /\ usdcBalance - usdcBalance' = pendingReward(c)
               /\ pendingReward(c)' = 0
               /\ claimError(c)' = "NothingToClaim"
       /\ \A c \in Participants :
            (claimError(c) = "NothingToClaim" /\ kills' = kills)
               => claimError(c)' = "NothingToClaim"]_vars

\* an alive participant and a dead one have both been paid and have nothing left
C9_Witness ==
    /\ totalOut > 0
    /\ \E c \in Participants, d \in Participants :
          /\ agents[c].alive /\ ~agents[d].alive
          /\ agents[c].rewardDebt > 0
          /\ claimError(c) = "NothingToClaim"
          /\ claimError(d) = "NothingToClaim"
          /\ agents[d].totalPaid > 0

\* ---- C10 ----------------------------------------------------------------
InRegistry(w) == \E k \in 1 .. Len(registry) : registry[k] = w

\* C10: heartbeat fails with NotRegistered for a caller that never registered,
\* AlreadyDead for one whose alive flag is unset, AlreadyHeartbeat when
\* currentEpoch = lastHeartbeatEpoch (the registration epoch included),
\* MissedEpoch when currentEpoch > lastHeartbeatEpoch + 1, and succeeds only
\* when currentEpoch = lastHeartbeatEpoch + 1.
C10_HeartbeatErrors ==
    \A c \in Participants :
       LET a == agents[c] IN
       /\ ~InRegistry(c) => heartbeatError(c) = "NotRegistered"
       /\ (InRegistry(c) /\ ~a.alive) => heartbeatError(c) = "AlreadyDead"
       /\ (a.alive /\ currentEpoch = a.lastHeartbeatEpoch)
             => heartbeatError(c) = "AlreadyHeartbeat"
       /\ (a.alive /\ currentEpoch > a.lastHeartbeatEpoch + 1)
             => heartbeatError(c) = "MissedEpoch"
       /\ heartbeatError(c) = "ok"
             => (a.alive /\ currentEpoch = a.lastHeartbeatEpoch + 1)

\* ---- C11 ----------------------------------------------------------------
\* C11: kill(target) fails with NotRegistered for a target that never
\* registered, with AlreadyDead for a registered target whose alive flag is
\* unset, and with NotDeadYet for a target whose alive flag is set while
\* currentEpoch <= lastHeartbeatEpoch + 1; a kill that succeeds unsets the
\* flag, so the same life cannot be killed again.
C11_KillErrors ==
    \A t \in Participants :
       LET a == agents[t] IN
       /\ ~InRegistry(t) => killError(t) = "NotRegistered"
       /\ (InRegistry(t) /\ ~a.alive) => killError(t) = "AlreadyDead"
       /\ (a.alive /\ currentEpoch <= a.lastHeartbeatEpoch + 1)
             => killError(t) = "NotDeadYet"

\* ---- C12 ----------------------------------------------------------------
\* what the identity registry can answer for an agent id
WalletAnswers == Participants \cup {ZERO}

\* C12: register(agentId) fails with NotAgentWallet exactly when the identity
\* registry does not resolve agentId to the caller; otherwise it fails with
\* AgentIdTaken when agentId is bound to another address, or when a caller whose
\* alive flag is unset has a prior record under another agentId, and with
\* AlreadyRegistered when the caller's alive flag is set and agentId is not
\* bound to another address; it succeeds for a caller that never registered
\* (with an agentId nobody holds) and for a dead caller that uses its own agentId.
C12_RegisterErrors ==
    \A c \in Participants, i \in Ids, w \in WalletAnswers :
       LET a == agents[c]
           e == registerError(c, i, w)
           boundToOther == agentIdToAddr[i] # ZERO /\ agentIdToAddr[i] # c
       IN  /\ (e = "NotAgentWallet") <=> (w # c)
           /\ (w = c /\ boundToOther) => e = "AgentIdTaken"
           /\ (w = c /\ ~boundToOther /\ a.alive) => e = "AlreadyRegistered"
           /\ (w = c /\ InRegistry(c) /\ ~a.alive /\ a.agentId # i)
                 => e = "AgentIdTaken"
           /\ (w = c /\ ~InRegistry(c) /\ ~boundToOther) => e = "ok"
           /\ (w = c /\ InRegistry(c) /\ ~a.alive /\ a.agentId = i) => e = "ok"
           /\ e \in {"NotAgentWallet", "AgentIdTaken", "AlreadyRegistered", "ok"}

\* after a re-registration: a dead participant may come back under its own id
\* but not under a free one, next to a participant whose flag is set and one
\* that never registered
C12_Witness ==
    /\ totalEverRegistered > Len(registry)
    /\ \E d \in Participants, i \in Ids :
          /\ InRegistry(d) /\ ~agents[d].alive
          /\ i # agents[d].agentId /\ agentIdToAddr[i] = ZERO
          /\ registerError(d, i, d) = "AgentIdTaken"
          /\ registerError(d, agents[d].agentId, d) = "ok"
    /\ \E c \in Participants : agents[c].alive /\ agents[c].birthEpoch # 0
    /\ \E n \in Participants : ~InRegistry(n)

\* ---- C13 ----------------------------------------------------------------
\* every registered address holds the id it is recorded under, so no id is
\* held by two addresses
C13_Bound ==
    /\ \A w \in Participants :
          InRegistry(w) => agentIdToAddr[agents[w].agentId] = w
    /\ \A i \in Ids :
          agentIdToAddr[i] # ZERO =>
             /\ InRegistry(agentIdToAddr[i])
             /\ agents[agentIdToAddr[i]].agentId = i
    /\ \A v \in Participants, w \in Participants :
          (InRegistry(v) /\ InRegistry(w) /\ agents[v].agentId = agents[w].agentId)
             => v = w

\* no step changes the id of a registered address or the address of a bound id
C13_Kept ==
    /\ \A w \in Participants :
          InRegistry(w) => /\ InRegistry(w)'
                           /\ agents'[w].agentId = agents[w].agentId
    /\ \A i \in Ids :
          agentIdToAddr[i] # ZERO => agentIdToAddr'[i] = agentIdToAddr[i]

\* C13: once an address has registered with agentId i, agents[address].agentId
\* = i and agentIdToAddr[i] = address in every later state, through deaths and
\* re-registrations and whatever the identity registry answers later; no two
\* addresses are bound to the same agentId.
C13_IdentityBinding == [](C13_Bound) /\ [][C13_Kept]_vars

\* the holder of the reassignable id 0 has died and registered again while
\* other addresses are registered under other ids
C13_Witness ==
    /\ totalEverRegistered > Len(registry)
    /\ Len(registry) >= 2
    /\ agentIdToAddr[0] # ZERO
    /\ agents[agentIdToAddr[0]].alive
    /\ agents[agentIdToAddr[0]].birthEpoch > 1
    /\ totalDead >= 2

\* ---- C14 ----------------------------------------------------------------
\* the step is the failure of the transfer of the call in flight
TransferFailed ==
    /\ inFlight # NoCall /\ inFlight' = NoCall
    /\ totalIn' = totalIn /\ totalOut' = totalOut

\* the step leaves the storage recorded in saved
StorageBecomes(saved) ==
    /\ agents' = saved.agents
    /\ agentIdToAddr' = saved.agentIdToAddr
    /\ registry' = saved.registry
    /\ totalAlive' = saved.totalAlive
    /\ totalDead' = saved.totalDead
    /\ totalEverRegistered' = saved.totalEverRegistered
    /\ totalAge' = saved.totalAge
    /\ accRewardPerAge' = saved.accRewardPerAge
    /\ treasury' = saved.treasury
    /\ treasuryBalance' = saved.treasuryBalance
    /\ totalRewardsDistributed' = saved.totalRewardsDistributed

\* some call whose checks fail can make this step
FailedCheckStep ==
    \/ \E c \in Participants, i \in Ids, w \in WalletAnswers :
          /\ (nonReentrantError # "ok" \/ registerError(c, i, w) # "ok")
          /\ registerCall(c, i, w)
    \/ \E c \in Participants :
          /\ (nonReentrantError # "ok" \/ heartbeatError(c) # "ok")
          /\ heartbeatCall(c)
    \/ \E c \in Participants, t \in Participants :
          killError(t) # "ok" /\ killCall(c, t)
    \/ \E c \in Participants :
          /\ (nonReentrantError # "ok"
                \/ claimError(c) \in {"NotRegistered", "Panic", "NothingToClaim"})
          /\ claimCall(c)
    \/ \E c \in Participants :
          /\ (nonReentrantError # "ok"
                \/ claimTreasuryError(c) \in {"NotTreasury", "NothingToClaim"})
          /\ claimTreasuryCall(c)
    \/ \E c \in Participants, n \in Participants \cup {ZERO} :
          transferTreasuryError(c, n) # "ok" /\ transferTreasuryCall(c, n)

\* a step that changes the storage or the call in flight is no failed check,
\* and a failed transfer leaves the storage the call found
C14_Step ==
    /\ TransferFailed => StorageBecomes(inFlight.saved)
    /\ (~UNCHANGED <<ledger, inFlight>>) => ~FailedCheckStep

\* between calls every registration event and every payment has been paid for
C14_Paid ==
    (inFlight = NoCall) =>
        /\ COST_PER_EPOCH * totalEverRegistered <= totalIn
        /\ COST_PER_EPOCH * payments = totalIn

\* C14: a register, heartbeat, kill, claim, claimTreasury or transferTreasury
\* call that fails, by a failed check or by a failed currency transfer, leaves
\* every record, the registry, the counters, totalAge, accRewardPerAge,
\* treasuryBalance and treasury as the call found them.
C14_AllOrNothing == [](C14_Paid) /\ [][C14_Step]_vars

\* a claim is inside its transfer and a kill has been made from inside it: a
\* failure of the transfer has the writes of both to undo
C14_Witness ==
    /\ inFlight # NoCall
    /\ inFlight.op = "claim"
    /\ kills > inFlight.saved.kills
    /\ ~StorageIs(inFlight.saved)

\* ---- C15 ----------------------------------------------------------------
\* the step is the return of the transfer of the call in flight
TransferReturned ==
    /\ inFlight # NoCall /\ inFlight' = NoCall
    /\ (totalIn' # totalIn \/ totalOut' # totalOut)

\* nothing is written once the transfer has returned
C15_Step == TransferReturned => UNCHANGED ledger

\* what a call made from inside the transfer finds
C15_Inside ==
    (inFlight # NoCall) =>
       LET c == inFlight.caller
           a == agents[c]
           saved == inFlight.saved
       IN  /\ totalAlive = Cardinality(AliveSet)
           /\ totalAge = SumOver([w \in Participants |-> AgeOf(agents[w])], AliveSet)
           /\ totalEverRegistered = totalAlive + totalDead
           /\ C13_Bound
           /\ (inFlight.op = "register") =>
                 /\ a.alive /\ InRegistry(c)
                 /\ a.birthEpoch = currentEpoch
                 /\ a.lastHeartbeatEpoch = currentEpoch
                 /\ a.totalPaid = poolAmount
                 /\ a.claimable = saved.agents[c].claimable
                 /\ treasuryBalance = saved.treasuryBalance + treasuryFee
                 /\ totalEverRegistered = saved.totalEverRegistered + 1
           /\ (inFlight.op = "heartbeat") =>
                 /\ a.alive
                 /\ a.lastHeartbeatEpoch = currentEpoch
                 /\ a.totalPaid = saved.agents[c].totalPaid + poolAmount
                 /\ treasuryBalance = saved.treasuryBalance + treasuryFee
           /\ (inFlight.op = "claim" /\ kills = saved.kills) =>
                 /\ a.claimable = 0
                 /\ pendingReward(c) = 0
           /\ (inFlight.op = "claimTreasury") =>
                 /\ treasuryBalance = 0
                 /\ inFlight.amount = saved.treasuryBalance

\* C15: register, heartbeat, claim and claimTreasury complete every write to
\* the records, the counters, totalAge, treasuryBalance and claimable before
\* they invoke the currency transfer and write nothing after it, so a call made
\* from inside the transfer (a view, or kill, which has no reentrancy guard)
\* finds the final storage of the operation.
C15_EffectsFirst == [](C15_Inside) /\ [][C15_Step]_vars

\* a payment is inside its transfer and a kill made from inside it has
\* redistributed reward to the participants left
C15_Witness ==
    /\ inFlight # NoCall
    /\ inFlight.op \in {"register", "heartbeat"}
    /\ kills > inFlight.saved.kills
    /\ accRewardPerAge > inFlight.saved.accRewardPerAge

\* ---- C16 ----------------------------------------------------------------
\* C16: every accepted register or heartbeat takes COST_PER_EPOCH from the
\* caller, adds floor(COST_PER_EPOCH * 1000 / 10000) to treasuryBalance and
\* the exact remainder to the caller's totalPaid (set on register, added on
\* heartbeat), so the two parts sum to COST_PER_EPOCH.
C16_FeeSplit ==
    [][(probe'.op \in {"register", "heartbeat"}) =>
          LET cost == probe.cost
              fee == probe'.treasuryBalance - probe.treasuryBalance
              part == IF probe'.op = "register"
                      THEN probe'.totalPaid
                      ELSE probe'.totalPaid - probe.totalPaid
          IN  /\ probe'.taken - probe.taken = cost
              /\ fee = (cost * 1000) \div 10000
              /\ part = cost - fee
              /\ fee + part = cost]_vars

\* ---- C17 ----------------------------------------------------------------
\* the treasury can claim exactly when treasuryBalance is not 0, and
\* treasuryBalance holds nothing but fees of accepted payments
C17_State ==
    /\ (treasuryBalance = 0) <=> (claimTreasuryError(treasury) = "NothingToClaim")
    /\ (treasuryBalance > 0) => (claimTreasuryError(treasury) = "ok")
    /\ treasuryBalance >= 0
    /\ treasuryBalance <= treasuryFee * payments

C17_Step ==
    /\ \A c \in Participants :
          claimTreasury(c) =>
             /\ c = treasury
             /\ totalOut' - totalOut = treasuryBalance
             /\ usdcBalance - usdcBalance' = treasuryBalance
             /\ treasuryBalance' = 0
             /\ agents' = agents
             /\ totalAge' = totalAge
             /\ accRewardPerAge' = accRewardPerAge
    /\ (treasuryBalance' # treasuryBalance) =>
          \/ /\ payments' = payments + 1
             /\ treasuryBalance' = treasuryBalance + treasuryFee
          \/ /\ treasuryBalance' = 0
             /\ totalOut' - totalOut = treasuryBalance
             /\ payments' = payments /\ kills' = kills

\* C17: claimTreasury pays exactly treasuryBalance to the treasury and sets
\* treasuryBalance to 0; it fails with NothingToClaim when treasuryBalance is
\* 0; it changes no participant record, totalAge or accRewardPerAge; and
\* treasuryBalance only ever grows by the fee of an accepted payment, never by
\* any part of totalPaid or of a reward.
C17_TreasuryClaim == [](C17_State) /\ [][C17_Step]_vars

\* the treasury has claimed the fees so far, after a kill has redistributed
\* reward and while a participant's flag is set; nothing is left for it
C17_Witness ==
    /\ treasuryBalance = 0
    /\ payments >= 2 /\ kills >= 1 /\ totalAlive >= 1
    /\ totalOut >= treasuryFee * payments
    /\ claimTreasuryError(treasury) = "NothingToClaim"

\* ---- C18 ----------------------------------------------------------------
C18_State ==
    \A c \in Participants, n \in Participants \cup {ZERO} :
       /\ (c # treasury) <=> (claimTreasuryError(c) = "NotTreasury")
       /\ (c # treasury) <=> (transferTreasuryError(c, n) = "NotTreasury")
       /\ (c = treasury /\ n = ZERO) => transferTreasuryError(c, n) = "ZeroAddress"
       /\ (c = treasury /\ n # ZERO) => transferTreasuryError(c, n) = "ok"

C18_Step ==
    \A c \in Participants, n \in Participants \cup {ZERO} :
       transferTreasury(c, n) =>
          /\ c = treasury /\ n # ZERO
          /\ treasury' = n
          /\ treasuryBalance' = treasuryBalance
          /\ (n # c) =>
                /\ claimTreasuryError(c)' = "NotTreasury"
                /\ \A m \in Participants :
                      transferTreasuryError(c, m)' = "NotTreasury"
          /\ (treasuryBalance > 0) => claimTreasuryError(n)' = "ok"

\* C18: only the current treasury address can call claimTreasury or
\* transferTreasury, every other caller gets NotTreasury (also when
\* treasuryBalance is 0); transferTreasury rejects the zero address with
\* ZeroAddress; after a transfer the previous holder gets NotTreasury from both
\* and the new holder can claim the whole treasuryBalance accrued so far.
C18_TreasuryAuthority == [](C18_State) /\ [][C18_Step]_vars

\* the treasury was handed over with fees accrued, and the new holder can
\* claim them while the deployer cannot
C18_Witness ==
    /\ treasury # DEPLOYER
    /\ treasuryBalance >= 2 * treasuryFee
    /\ claimTreasuryError(DEPLOYER) = "NotTreasury"
    /\ claimTreasuryError(treasury) = "ok"

\* ---- C19 ----------------------------------------------------------------
\* C19: getAgentList(start, end) with start <= end returns the snapshots of the
\* registry entries at indices start .. min(end, registryLength - 1), one per
\* index and in registry order; a range that starts at or beyond the end of the
\* registry yields the empty list.
C19_AgentListRange ==
    \A start \in QueryIndices, end \in QueryIndices :
       (start <= end) =>
          LET r == getAgentList(start, end)
              last == IF end >= Len(registry) THEN Len(registry) - 1 ELSE end
              count == IF start > last THEN 0 ELSE last - start + 1
          IN  /\ r.error = "ok"
              /\ Len(r.list) = count
              /\ \A k \in 1 .. count :
                    /\ r.list[k].addr = registry[start + k]
                    /\ r.list[k] = AgentInfo(registry[start + k])

\* ---- C20 ----------------------------------------------------------------
\* C20: getAgentList and getKillable fail with InvalidRange whenever
\* start > end, whatever the registry holds.
C20_InvalidRange ==
    \A start \in QueryIndices, end \in QueryIndices :
       (start > end) =>
          /\ getAgentList(start, end).error = "InvalidRange"
          /\ getKillable(start, end).error = "InvalidRange"

\* ---- C21 ----------------------------------------------------------------
\* the addresses at registry indices first .. last (counted from 0) for which
\* isKillable holds, in registry order
RECURSIVE KillableIn(_, _)
KillableIn(first, last) ==
    IF first > last THEN << >>
    ELSE (IF isKillable(registry[first + 1]) THEN <<registry[first + 1]>> ELSE << >>)
         \o KillableIn(first + 1, last)

\* the addr fields of the snapshots in list whose killable field is set
RECURSIVE KillableAddrs(_)
KillableAddrs(list) ==
    IF list = << >> THEN << >>
    ELSE (IF Head(list).killable THEN <<Head(list).addr>> ELSE << >>)
         \o KillableAddrs(Tail(list))

\* C21: getKillable(start, end) with start <= end returns the addresses at
\* registry indices start .. min(end, registryLength - 1) for which isKillable
\* is true, each once and in registry order, and these are the addresses of the
\* getAgentList(start, end) snapshots whose killable field is true.
C21_KillableRange ==
    \A start \in QueryIndices, end \in QueryIndices :
       (start <= end) =>
          LET r == getKillable(start, end)
              last == IF end >= Len(registry) THEN Len(registry) - 1 ELSE end
          IN  /\ r.error = "ok"
              /\ r.list = KillableIn(start, last)
              /\ r.list = KillableAddrs(getAgentList(start, end).list)

\* ---- C22 ----------------------------------------------------------------
\* the pages [0, k-1], [k, 2k-1], ... of getAgentList, ends not clamped by
\* the caller
RECURSIVE AgentPages(_, _)
AgentPages(start, k) ==
    IF start >= Len(registry) THEN << >>
    ELSE getAgentList(start, start + k - 1).list \o AgentPages(start + k, k)

\* the single query over the whole registry
FullAgentList == getAgentList(0, MaxIndex)
FullKillable == getKillable(0, MaxIndex)

\* C22: with the state unchanged, the pages of a batch query over the adjacent
\* ranges [0,k-1], [k,2k-1], ... put together equal the result of the single
\* query over the whole registry, for getAgentList and for getKillable, and
\* hold every registry entry exactly once, in registry order.
C22_Pagination ==
    \A k \in PageSizes :
       LET paged == fetchAllAgents(Len(registry), k)
           due == fetchAllKillable(Len(registry), k)
       IN  /\ paged.error = "ok" /\ due.error = "ok"
           /\ FullAgentList.error = "ok" /\ FullKillable.error = "ok"
           /\ paged.list = FullAgentList.list
           /\ due.list = FullKillable.list
           /\ AgentPages(0, k) = FullAgentList.list
           /\ Len(paged.list) = Len(registry)
           /\ \A j \in 1 .. Len(registry) : paged.list[j].addr = registry[j]

\* a registry of NumCrowd entries, read in pages of 2 of which the last is
\* short, with killable entries in two different pages
C22_Witness ==
    /\ Len(registry) = NumCrowd
    /\ totalDead >= 1
    /\ Len(getKillable(0, 1).list) >= 1
    /\ Len(getKillable(4, 5).list) >= 1
    /\ Len(fetchAllAgents(Len(registry), 2).list) = NumCrowd

\* ---- C23 ----------------------------------------------------------------
\* getAge is 0 for no registered address, and for a dead one it is the age of
\* the record, as is the age field of its snapshot
C23_State ==
    \A w \in Participants :
       /\ (getAge(w) = 0) => ~InRegistry(w)
       /\ (InRegistry(w) /\ ~agents[w].alive) =>
             /\ getAge(w) = AgeOf(agents[w])
             /\ AgentInfo(w).age = getAge(w)

\* a kill leaves the age of its target, and the age of a dead participant
\* stays until it registers again, when it is 1
C23_Step ==
    /\ \A c \in Participants, t \in Participants :
          kill(c, t) =>
             /\ getAge(t)' = AgeOf(agents[t])
             /\ getAge(t)' = getAge(t)
             /\ AgentInfo(t)'.age = AgeOf(agents[t])
    /\ \A w \in Participants :
          (InRegistry(w) /\ ~agents[w].alive) =>
             /\ ~agents'[w].alive => getAge(w)' = getAge(w)
             /\ agents'[w].alive => getAge(w)' = 1

\* C23: after kill(target), getAge(target) and the age field of target's
\* getAgentList snapshot return the age target had at death
\* (lastHeartbeatEpoch - birthEpoch + 1) in every later state until target
\* registers again, when it becomes 1; getAge returns 0 only for addresses
\* that never registered.
C23_FrozenAge == [](C23_State) /\ [][C23_Step]_vars

\* ---- C24 ----------------------------------------------------------------
\* the registry holds no address twice and holds exactly the addresses that
\* have a record
C24_State ==
    /\ \A j \in 1 .. Len(registry), k \in 1 .. Len(registry) :
          registry[j] = registry[k] => j = k
    /\ \A w \in Participants : InRegistry(w) <=> (agents[w] # EmptyAgent)
    /\ Len(registry) <= totalEverRegistered

\* the registry changes only by a first registration appending its caller, and
\* totalEverRegistered counts every registration
C24_Step ==
    /\ \A c \in Participants, i \in Ids, w \in Participants :
          register(c, i, w) =>
             /\ registry' = IF InRegistry(c) THEN registry ELSE Append(registry, c)
             /\ totalEverRegistered' = totalEverRegistered + 1
    /\ (registry' # registry) =>
          /\ Len(registry') = Len(registry) + 1
          /\ SubSeq(registry', 1, Len(registry)) = registry
          /\ totalEverRegistered' = totalEverRegistered + 1
    /\ (totalEverRegistered' # totalEverRegistered) =>
          /\ totalEverRegistered' = totalEverRegistered + 1
          /\ payments' = payments + 1
          /\ totalAlive' = totalAlive + 1

\* C24: the registry is append-only and free of duplicates: it holds every
\* address that has ever registered exactly once, in the order of the first
\* registrations; a re-registration appends nothing and no operation removes
\* or reorders entries, so registryLength counts participants and
\* totalEverRegistered counts registrations, re-registrations included.
C24_Registry == [](C24_State) /\ [][C24_Step]_vars

\* every wallet is in the registry and two registrations were re-registrations
C24_Witness ==
    /\ Len(registry) = NumWallets
    /\ totalEverRegistered >= NumWallets + 2
    /\ totalDead >= 2

\* ---- C25 ----------------------------------------------------------------
\* sum of lastHeartbeatEpoch - birthEpoch + 1 over the records whose alive
\* flag is set
SumLivingAge ==
    SumOver([w \in Participants |-> AgeOf(agents[w])], AliveSet)

\* C25: totalAge equals the sum of lastHeartbeatEpoch - birthEpoch + 1 over
\* all participants whose alive flag is set, the killable ones that nobody has
\* killed yet included, and is 0 when no flag is set.
C25_TotalAge ==
    /\ totalAge = SumLivingAge
    /\ (AliveSet = {}) => totalAge = 0

\* after a kill, a participant aged by heartbeats stands next to one that is
\* killable and not yet killed
C25_Witness ==
    /\ kills >= 1
    /\ \E v \in Participants, w \in Participants :
          /\ agents[v].alive /\ AgeOf(agents[v]) >= 2 /\ ~isKillable(v)
          /\ agents[w].alive /\ isKillable(w)
    /\ totalAge >= 3

\* ---- C26 ----------------------------------------------------------------
\* C26: accRewardPerAge never decreases, and it changes only in a kill that
\* leaves totalAge > 0: register, heartbeat, claim, claimTreasury,
\* transferTreasury and the kill of the last participant whose flag is set
\* leave it as it is.
C26_AccMonotone ==
    [][/\ accRewardPerAge' >= accRewardPerAge
       /\ (accRewardPerAge' # accRewardPerAge) =>
             (kills' = kills + 1 /\ totalAge' > 0)
       /\ \A c \in Participants, t \in Participants :
             kill(c, t) =>
                accRewardPerAge' =
                   IF totalAge' > 0
                   THEN accRewardPerAge
                        + (agents[t].totalPaid * PRECISION) \div totalAge'
                   ELSE accRewardPerAge
       /\ (kills' = kills) => accRewardPerAge' = accRewardPerAge]_vars

\* the accumulator has grown by two kills and a later kill of the last
\* participant has left it as it was
C26_Witness ==
    /\ kills >= 3
    /\ accRewardPerAge > 0
    /\ totalAlive = 0 /\ totalAge = 0

\* ---- C27 ----------------------------------------------------------------
\* a run of auto that began after the agent registered and has passed its
\* heartbeat step sent a heartbeat or skipped it on AlreadyHeartbeat
C27_RunsBeat ==
    (auto.registered /\ auto.pc # "heartbeat") => auto.hb \in {"sent", "skipped"}

\* C27: an agent that is registered and funded and runs auto at least once in
\* every epoch never misses a heartbeat: each run sends an accepted heartbeat
\* or skips it because one was already accepted in the epoch, and the agent
\* never becomes killable (so it is never killed).
C27_NeverMisses ==
    AgentRegistered =>
       /\ C27_RunsBeat
       /\ ~isKillable(AGENT)
       /\ agents[AGENT].alive

\* the same for an agent whose record was not born in epoch 0
C27_AfterEpoch0 ==
    (AgentRegistered /\ agents[AGENT].birthEpoch # 0) =>
       /\ (auto.started >= agents[AGENT].birthEpoch => C27_RunsBeat)
       /\ ~isKillable(AGENT)
       /\ agents[AGENT].alive

\* the agent lived through MaxEpoch epochs on runs of auto alone
C27_Lived ==
    /\ AgentRegistered /\ agents[AGENT].birthEpoch = 1
    /\ currentEpoch = MaxEpoch /\ auto.ran = MaxEpoch
    /\ auto.hb = "sent" /\ getAge(AGENT) = MaxEpoch
    /\ totalDead >= 1

\* ---- C28 ----------------------------------------------------------------
\* the lifecycle state of a participant, from the registry, the alive flag
\* and the two views isAlive and isKillable
Lifecycle(w) ==
    IF ~InRegistry(w) THEN "Unregistered"
    ELSE IF isKillable(w) THEN "Killable"
    ELSE IF isAlive(w) THEN "Alive"
    ELSE "Dead"

LifecycleArrows ==
    { <<"Unregistered", "Alive">>, <<"Alive", "Killable">>,
      <<"Killable", "Dead">>, <<"Dead", "Alive">> }

\* a Killable participant can neither heartbeat nor register
C28_KillableStuck(w) ==
    (Lifecycle(w) = "Killable") =>
       /\ heartbeatError(w) = "MissedEpoch"
       /\ registerError(w, agents[w].agentId, w) = "AlreadyRegistered"
       /\ \A i \in AgentIds, a \in Wallets \cup {ZERO} :
             registerError(w, i, a) # "ok"

C28_State == \A w \in Participants : C28_KillableStuck(w)

\* every change of lifecycle state is one of the four arrows; Alive leaves for
\* Killable by the clock alone, Killable leaves by a kill alone, Dead leaves
\* by register alone
C28_Move(w) ==
    (Lifecycle(w)' # Lifecycle(w)) =>
       /\ <<Lifecycle(w), Lifecycle(w)'>> \in LifecycleArrows
       /\ (Lifecycle(w) = "Alive") =>
             /\ now' > now /\ UNCHANGED ledger
             /\ currentEpoch' > agents[w].lastHeartbeatEpoch + 1
       /\ (Lifecycle(w) = "Killable") => \E c \in Participants : kill(c, w)
       /\ (Lifecycle(w) = "Dead") =>
             \E i \in AgentIds : \E a \in getAgentWallet(i) : register(w, i, a)

C28_Step ==
    (~UNCHANGED <<ledger, now>>) => \A w \in Participants : C28_Move(w)

\* C28: lifecycle transitions follow Unregistered -> Alive -> Killable ->
\* Dead -> Alive only: Alive becomes Killable solely by the epoch advancing
\* past lastHeartbeatEpoch + 1; a Killable participant can neither heartbeat
\* (MissedEpoch) nor register (AlreadyRegistered), so the only transition out
\* of Killable is a kill; and only register moves a Dead participant back to
\* Alive.
C28_Lifecycle == [](C28_State) /\ [][C28_Step]_vars

\* the same for the participants whose record was not born in epoch 0
C28_AfterEpoch0 ==
    /\ [](\A w \in Participants :
             agents[w].birthEpoch # 0 => C28_KillableStuck(w))
    /\ [][(~UNCHANGED <<ledger, now>>) =>
             \A w \in Participants :
                (agents[w].birthEpoch # 0 \/ ~InRegistry(w)) => C28_Move(w)]_vars

\* a participant on its second life, with another one killable
C28_SecondLife ==
    \E w \in Participants, v \in Participants :
       /\ Lifecycle(w) = "Alive" /\ agents[w].birthEpoch > 1
       /\ agents[w].claimable > 0
       /\ Lifecycle(v) = "Killable" /\ agents[v].birthEpoch # 0

\* ---- C29 ----------------------------------------------------------------
\* what a successful heartbeat of c does to c's age, to totalAge and to c's
\* reward: the claimable grows by the reward accrued at the old age, the
\* rewardDebt is the one of the new age, the pending reward is as before
C29_Beat(c) ==
    heartbeat(c) =>
       /\ getAge(c)' = getAge(c) + 1
       /\ AgeOf(agents'[c]) = AgeOf(agents[c]) + 1
       /\ totalAge' = totalAge + 1
       /\ agents'[c].claimable =
             agents[c].claimable + Accrued(agents[c], accRewardPerAge)
       /\ agents'[c].rewardDebt =
             (AgeOf(agents'[c]) * accRewardPerAge') \div PRECISION
       /\ Accrued(agents'[c], accRewardPerAge') = 0
       /\ ~RewardPanics(c) /\ ~RewardPanics(c)'
       /\ pendingReward(c)' = pendingReward(c)

C29_Step == (~UNCHANGED ledger) => \A c \in Participants : C29_Beat(c)

\* C29: a successful heartbeat raises the caller's age by exactly 1 and
\* totalAge by exactly 1, and settles the accrued reward with the
\* pre-increment age before resetting rewardDebt for the new age, so the
\* caller's pendingReward is the same immediately before and immediately
\* after the heartbeat.
C29_Heartbeat == [][C29_Step]_vars

\* a participant that has just sent a heartbeat which settled a reward
C29_Witness ==
    \E c \in Participants :
       /\ agents[c].alive /\ agents[c].birthEpoch # 0
       /\ agents[c].lastHeartbeatEpoch = currentEpoch
       /\ AgeOf(agents[c]) >= 2
       /\ agents[c].claimable > 0
       /\ agents[c].rewardDebt > 0
       /\ pendingReward(c) = agents[c].claimable

\* ---- C30 ----------------------------------------------------------------
\* what a successful kill of t writes
C30_Kill(t) ==
    LET age == AgeOf(agents[t])
        remaining == totalAge - age
    IN  /\ agents[t].alive /\ ~agents'[t].alive
        /\ totalAlive' = totalAlive - 1
        /\ totalAge' = remaining
        /\ totalDead' = totalDead + 1
        /\ (remaining > 0) =>
              accRewardPerAge' = accRewardPerAge +
                 (agents[t].totalPaid * PRECISION) \div remaining
        /\ \A w \in Participants \ {t} : agents'[w] = agents[w]
        /\ \A w \in Participants :
              (InRegistry(w) /\ ~agents[w].alive) =>
                 agents'[w].claimable = agents[w].claimable

C30_Step ==
    (~UNCHANGED ledger) =>
       \A c \in Participants, t \in Participants : kill(c, t) => C30_Kill(t)

\* C30: a successful kill(target) sets target's alive flag to false,
\* decrements totalAlive by 1, decreases totalAge by target's age, increments
\* totalDead by 1 and, when the remaining totalAge is > 0, adds
\* floor(target.totalPaid * PRECISION / remaining totalAge) to
\* accRewardPerAge; it writes no field of any other participant's record, so
\* the claimable of every dead participant is unchanged by later kills.
C30_KillFrame == [][C30_Step]_vars

\* two kills, one of them with living participants left, and two dead
\* participants that both hold a claimable
C30_Witness ==
    /\ kills >= 2 /\ totalDead >= 2 /\ accRewardPerAge > 0
    /\ \E w \in Participants : \E v \in Participants \ {w} :
          /\ InRegistry(w) /\ ~agents[w].alive /\ agents[w].claimable > 0
          /\ InRegistry(v) /\ ~agents[v].alive /\ agents[v].claimable > 0

\* ---- C31 ----------------------------------------------------------------
\* sum of the pendingReward view over all participants
SumPending == SumOver([w \in Participants |-> pendingReward(w)], Participants)

\* the contract holds what it owes
C31_Covered == usdcBalance >= treasuryBalance + SumPending + SumLivingPaid

\* no payout fails for lack of funds
C31_Payable ==
    /\ \A c \in Participants : claimError(c) # "TransferFailed"
    /\ \A c \in Participants \cup {ZERO} : claimTreasuryError(c) # "TransferFailed"

\* C31: in every reachable state the currency held by the contract is at
\* least treasuryBalance + the sum of pendingReward over all participants +
\* the sum of totalPaid over participants whose alive flag is set;
\* consequently no claim() or claimTreasury() with a non-zero payout can fail
\* for lack of funds, whatever the order of registrations, kills and claims.
C31_Solvent == C31_Covered /\ C31_Payable

\* the currency the contract owes beyond what it holds
C31_Shortfall ==
    treasuryBalance + SumPending + SumLivingPaid - usdcBalance

\* kills have redistributed reward, part of it is paid out and part is still
\* owed, to the living and to the dead
C31_Witness ==
    /\ kills >= 2 /\ totalOut > 0 /\ treasuryBalance > 0
    /\ SumAccrued > 0 /\ SumLivingPaid > 0
    /\ \E w \in Participants : ~agents[w].alive /\ agents[w].claimable > 0

\* ---- C32 ----------------------------------------------------------------
\* x registers, sends a heartbeat, claims, claims the treasury or hands it over
C32_ActsAlone(x) ==
    \/ \E i \in AgentIds : \E w \in getAgentWallet(i) : register(x, i, w)
    \/ heartbeat(x)
    \/ claim(x)
    \/ claimTreasury(x)
    \/ \E n \in TreasuryCandidates : transferTreasury(x, n)

C32_Others(x) ==
    \A y \in Participants \ {x} :
       /\ ~RewardPanics(y) => ~RewardPanics(y)'
       /\ pendingReward(y)' = pendingReward(y)

\* a pendingReward that changes is the one of a claimer, or the step is a kill
C32_OnlyKill ==
    \A y \in Participants :
       (pendingReward(y)' # pendingReward(y)) =>
          \/ claim(y)
          \/ \E c \in Participants, t \in Participants : kill(c, t)

C32_Step ==
    (~UNCHANGED ledger) =>
       /\ \A x \in Participants : C32_ActsAlone(x) => C32_Others(x)
       /\ C32_OnlyKill

\* C32: register, heartbeat and claim by participant x, and claimTreasury /
\* transferTreasury, leave pendingReward(y) unchanged for every other
\* participant y: a participant joining, ageing or withdrawing never dilutes
\* or increases reward already accrued by others; only a kill changes other
\* participants' pendingReward.
C32_NoDilution == [][C32_Step]_vars

\* a participant has just registered and another has just sent a heartbeat
\* while a third one, dead, holds a reward, and reward is accrued by the living
C32_Witness ==
    \E x \in Participants, y \in Participants, z \in Participants :
       /\ agents[x].alive /\ agents[x].birthEpoch = currentEpoch
       /\ agents[x].rewardDebt > 0
       /\ agents[y].alive /\ agents[y].birthEpoch # 0
       /\ agents[y].birthEpoch < currentEpoch
       /\ agents[y].lastHeartbeatEpoch = currentEpoch
       /\ pendingReward(y) > 0
       /\ ~agents[z].alive /\ InRegistry(z)

\* ---- C33 ----------------------------------------------------------------
\* the settlement of w's reward does not underflow, in none of the functions
\* that compute it
C33_Settles(w) ==
    /\ agents[w].rewardDebt <=
          (AgeOf(agents[w]) * accRewardPerAge) \div PRECISION
    /\ Accrued(agents[w], accRewardPerAge) >= 0
    /\ heartbeatError(w) # "Panic"
    /\ claimError(w) # "Panic"
    /\ ~RewardPanics(w)

\* C33: for every participant whose alive flag is set, rewardDebt <=
\* floor(age * accRewardPerAge / PRECISION) in every reachable state, so the
\* checked subtraction used to settle reward in heartbeat, kill, claim,
\* pendingReward and getAgentList never underflows and none of these can fail
\* for that reason.
C33_NoUnderflow ==
    /\ \A w \in Participants : agents[w].alive => C33_Settles(w)
    /\ \A s \in QueryIndices, e \in QueryIndices :
          (s <= e /\ s < Len(registry)) => getAgentList(s, e).error = "ok"

\* a participant that registered after a kill, with a rewardDebt, accrues
\* reward from a later kill, next to one that has settled at a heartbeat
C33_Witness ==
    \E w \in Participants, v \in Participants :
       /\ agents[w].alive /\ agents[w].birthEpoch > 1
       /\ agents[w].rewardDebt > 0
       /\ Accrued(agents[w], accRewardPerAge) > 0
       /\ agents[v].alive /\ AgeOf(agents[v]) >= 2
       /\ agents[v].rewardDebt > 0 /\ agents[v].birthEpoch # 0

\* ---- C34 ----------------------------------------------------------------
\* C34: for every participant whose alive flag is set, totalPaid equals
\* age * poolAmount (poolAmount = COST_PER_EPOCH minus the treasury fee) as a
\* true integer: totalPaid is reset to poolAmount on each registration, grows
\* by poolAmount per accepted heartbeat, and the unchecked uint96 addition
\* never wraps for any COST_PER_EPOCH accepted by the constructor.
C34_TotalPaid ==
    probe.alive => probe.totalPaid = probe.age * poolAmountOf(probe.cost)

\* the same for the COST_PER_EPOCH that leave MaxAge payments below
\* type(uint96).max
C34_SmallCost ==
    (probe.alive /\ MaxAge * poolAmountOf(probe.cost) <= MAX_UINT96) =>
       probe.totalPaid = probe.age * poolAmountOf(probe.cost)

\* with the COST_PER_EPOCH of the main model, in the contract's own records
C34_Deployed ==
    \A w \in Participants :
       agents[w].alive => agents[w].totalPaid = AgeOf(agents[w]) * poolAmount

\* ---- C35 ----------------------------------------------------------------
C35_State ==
    /\ totalAlive = Cardinality(AliveSet)
    /\ totalEverRegistered = totalAlive + totalDead

C35_Step ==
    /\ totalDead' >= totalDead
    /\ totalEverRegistered' >= totalEverRegistered

\* C35: counter consistency: in every reachable state totalAlive equals the
\* number of records whose alive flag is set, totalEverRegistered =
\* totalAlive + totalDead, and totalDead and totalEverRegistered never
\* decrease.
C35_Counters == [](C35_State) /\ [][C35_Step]_vars

\* deaths and a registration after a death: more registrations than
\* registry entries, with the living and the dead both counted
C35_Witness ==
    /\ totalDead >= 2
    /\ totalAlive >= 2
    /\ totalEverRegistered > Len(registry)
    /\ \E w \in Participants : InRegistry(w) /\ ~agents[w].alive

\* ---- C36 ----------------------------------------------------------------
\* C36: every pool contribution is redistributed exactly once, at its
\* payer's death: in every reachable state totalRewardsDistributed + the sum
\* of totalPaid over participants whose alive flag is set equals poolAmount
\* times the number of accepted payments (registrations plus heartbeats), and
\* the totalPaid of a dead record is never redistributed again.
C36_OncePaid ==
    probe.distributed + (IF probe.alive THEN probe.totalPaid ELSE 0)
       = poolAmountOf(probe.cost) * probe.payments

\* the same for the COST_PER_EPOCH that leave MaxAge payments below
\* type(uint96).max
C36_SmallCost ==
    (MaxAge * poolAmountOf(probe.cost) <= MAX_UINT96) => C36_OncePaid

\* with the COST_PER_EPOCH of the main model, in the contract's own records:
\* the balance of contributions, and totalRewardsDistributed grows only by
\* the totalPaid of a record that a kill finds with its alive flag set
C36_Deployed ==
    /\ [](totalRewardsDistributed + SumLivingPaid = poolAmount * payments)
    /\ [][(totalRewardsDistributed' # totalRewardsDistributed) =>
             \E c \in Participants, t \in Participants :
                /\ kill(c, t)
                /\ agents[t].alive /\ ~agents'[t].alive
                /\ totalRewardsDistributed' =
                      totalRewardsDistributed + agents[t].totalPaid]_vars

\* ---- C37 ----------------------------------------------------------------
\* w is recognised as registered by heartbeat, kill, claim and getAge
C37_Recognised(w) ==
    /\ agents[w].birthEpoch # 0
    /\ heartbeatError(w) # "NotRegistered"
    /\ killError(w) # "NotRegistered"
    /\ claimError(w) # "NotRegistered"
    /\ getAge(w) = AgeOf(agents[w])

\* w can send a heartbeat now or next epoch, or can be killed
C37_NotStuck(w) ==
    \/ heartbeatError(w) \in {"ok", "AlreadyHeartbeat"}
    \/ killError(w) = "ok"

\* C37: every record whose alive flag is set has birthEpoch # 0, for
\* registrations at any epoch the clock can produce (including epoch 0): a
\* registered participant is therefore always recognised as registered by
\* heartbeat, kill, claim, getAge and pendingReward and can never be stuck
\* alive without being able to heartbeat or be killed.
C37_BirthEpoch ==
    \A w \in Participants :
       agents[w].alive => (C37_Recognised(w) /\ C37_NotStuck(w))

\* the same for the records registered in epoch 1 or later
C37_AfterEpoch0 ==
    \A w \in Participants :
       (agents[w].alive /\ agents[w].lastHeartbeatEpoch # 0) =>
          (C37_Recognised(w) /\ C37_NotStuck(w))

\* ---- C38 ----------------------------------------------------------------
\* the snapshot info agrees with the views and the record of info.addr
C38_Agrees(info) ==
    LET addr == info.addr IN
    /\ addr \in Participants
    /\ info.age = getAge(addr)
    /\ info.killable = isKillable(addr)
    /\ info.pendingReward = pendingReward(addr)
    /\ info.totalPaid = agents[addr].totalPaid
    /\ info.agentId = agents[addr].agentId
    /\ info.alive = agents[addr].alive
    /\ (info.alive /\ ~info.killable) = isAlive(addr)

\* C38: each snapshot returned by getAgentList agrees with the
\* single-participant views evaluated in the same state and epoch: age =
\* getAge(addr), killable = isKillable(addr), pendingReward =
\* pendingReward(addr), totalPaid and agentId equal the stored record, and
\* (alive and not killable) = isAlive(addr).
C38_Snapshots ==
    \A s \in QueryIndices, e \in QueryIndices :
       LET r == getAgentList(s, e) IN
       (r.error = "ok") =>
          \A k \in 1 .. Len(r.list) :
             /\ r.list[k].addr = registry[s + k]
             /\ C38_Agrees(r.list[k])

\* a list with a killable entry, a dead entry and a living entry that has
\* accrued a reward
C38_Witness ==
    LET r == getAgentList(0, MaxIndex) IN
    /\ r.error = "ok" /\ Len(r.list) = NumWallets
    /\ \E k \in 1 .. Len(r.list) : r.list[k].killable
    /\ \E k \in 1 .. Len(r.list) : ~r.list[k].alive /\ r.list[k].age >= 1
    /\ \E k \in 1 .. Len(r.list) :
          /\ r.list[k].alive /\ ~r.list[k].killable
          /\ r.list[k].pendingReward > 0 /\ r.list[k].age >= 2

\* ---- C39 ----------------------------------------------------------------
\* no state of the contract and no currency moves
C39_NoTransaction == UNCHANGED <<ledger, usdcBalance, totalIn, totalOut>>

\* a step of the kill loop: the heartbeat step is behind it, a failed kill
\* changes nothing, and the loop goes on with the remaining targets and then
\* with the claim step
C39_KillStep ==
    (auto.pc = "kill" /\ auto' # auto) =>
       /\ auto.hb \in {"sent", "skipped"}
       /\ auto'.targets = Tail(auto.targets)
       /\ auto'.pc = IF Tail(auto.targets) = << >> THEN "claim" ELSE "kill"
       /\ (killError(Head(auto.targets)) # "ok") =>
             (C39_NoTransaction /\ auto'.raced)

\* a run that finds isAlive false ends without a transaction
C39_NotAliveStep ==
    (auto.pc = "idle" /\ auto' # auto /\ ~isAlive(AGENT)) =>
       /\ auto'.pc = "idle" /\ auto'.outcome = "notAlive"
       /\ C39_NoTransaction

\* a heartbeat that fails with MissedEpoch ends the run
C39_MissedStep ==
    (auto.pc = "heartbeat" /\ auto' # auto
        /\ heartbeatError(AGENT) = "MissedEpoch") =>
       /\ auto'.pc = "idle" /\ auto'.outcome = "missed"
       /\ C39_NoTransaction

\* the claim step claims exactly when pendingReward > 0, and the run ends
\* with the summary
C39_ClaimStep ==
    (auto.pc = "claim" /\ auto' # auto) =>
       /\ auto.hb \in {"sent", "skipped"}
       /\ auto'.pc = "idle"
       /\ IF pendingReward(AGENT) > 0
          THEN /\ auto'.outcome = "claimed"
               /\ totalOut' = totalOut + pendingReward(AGENT)
               /\ pendingReward(AGENT)' = 0
          ELSE /\ auto'.outcome = "done"
               /\ C39_NoTransaction

\* the kill and claim steps come only in a run that is past its heartbeat
C39_Order ==
    (auto.pc \in {"scan", "kill", "claim"}) =>
       /\ auto.hb \in {"sent", "skipped"}
       /\ auto.outcome = "running"

C39_Step ==
    /\ C39_KillStep
    /\ C39_NotAliveStep
    /\ C39_MissedStep
    /\ C39_ClaimStep

====
